---- MODULE Spec2Model ----
(***************************************************************************)
(* A model of the any2md / doc2mkdocs conversion pipeline: the link        *)
(* rewriter, the conversion report, and the batch orchestrators of the     *)
(* command line (cli.py) and of the web job (web/app.py).                  *)
(*                                                                         *)
(* Text is modelled as a sequence of one-character strings, a path as the  *)
(* sequence of its components (pathlib's parts; an absolute path starts    *)
(* with the component <<"/">>), a dict as the sequence of its items in     *)
(* insertion order.  Quality scores are kept in hundredths (100 = 1.0).    *)
(***************************************************************************)
EXTENDS Integers, Sequences, FiniteSets, TLC

(***************************************************************************)
(* Text helpers (Python str).                                              *)
(***************************************************************************)
Upper == <<"A","B","C","D","E","F","G","H","I","J","K","L","M",
           "N","O","P","Q","R","S","T","U","V","W","X","Y","Z">>
Lower == <<"a","b","c","d","e","f","g","h","i","j","k","l","m",
           "n","o","p","q","r","s","t","u","v","w","x","y","z">>
Digits == {"0","1","2","3","4","5","6","7","8","9"}

IsUpper(c) == \E i \in DOMAIN Upper : Upper[i] = c
IsLower(c) == \E i \in DOMAIN Lower : Lower[i] = c

\* str.lower() on one character
LowerChar(c) ==
    IF IsUpper(c) THEN Lower[CHOOSE i \in DOMAIN Upper : Upper[i] = c] ELSE c

\* str.lower()
StrLower(s) == [i \in DOMAIN s |-> LowerChar(s[i])]

\* str.find(c): the first index of c in s (1-based), 0 when absent
Find(s, c) ==
    IF \E i \in DOMAIN s : s[i] = c
    THEN CHOOSE i \in DOMAIN s : s[i] = c /\ \A j \in 1..(i-1) : s[j] # c
    ELSE 0

\* str.rfind(c): the last index of c in s (1-based), 0 when absent
RFind(s, c) ==
    IF \E i \in DOMAIN s : s[i] = c
    THEN CHOOSE i \in DOMAIN s : s[i] = c /\ \A j \in (i+1)..Len(s) : s[j] # c
    ELSE 0

\* s[i:] of Python with a 1-based i
From(s, i) == SubSeq(s, i, Len(s))

\* s.startswith(p), s.endswith(p)
StartsWith(s, p) == Len(p) <= Len(s) /\ SubSeq(s, 1, Len(p)) = p
EndsWith(s, p) == Len(p) <= Len(s) /\ SubSeq(s, Len(s) - Len(p) + 1, Len(s)) = p

\* s.split(c): the pieces of s between the occurrences of c
RECURSIVE Split(_, _)
Split(s, c) ==
    LET i == Find(s, c)
    IN  IF i = 0 THEN <<s>>
        ELSE <<SubSeq(s, 1, i - 1)>> \o Split(From(s, i + 1), c)

\* c.join(parts)
RECURSIVE Join(_, _)
Join(parts, c) ==
    IF parts = <<>> THEN <<>>
    ELSE IF Len(parts) = 1 THEN parts[1]
    ELSE parts[1] \o <<c>> \o Join(Tail(parts), c)

NL == "\n"
Whitespace == {" ", "\t"}

\* the length of the run of characters of `set` that starts s
RECURSIVE RunLength(_, _)
RunLength(s, set) ==
    IF s # <<>> /\ s[1] \in set THEN 1 + RunLength(Tail(s), set) ELSE 0

(***************************************************************************)
(* pathlib.PurePosixPath.                                                  *)
(***************************************************************************)
Root == <<"/">>
Dot == <<".">>

\* Path(text): the parts; empty and "." components are dropped, ".." is kept
PathOf(text) ==
    LET KeepPart(p) == p # <<>> /\ p # Dot
        parts == SelectSeq(Split(text, "/"), KeepPart)
    IN  IF text # <<>> /\ text[1] = "/" THEN <<Root>> \o parts ELSE parts

\* str(path)
PathStr(p) ==
    IF p = <<>> THEN Dot
    ELSE IF p[1] = Root THEN Root \o Join(Tail(p), "/")
    ELSE Join(p, "/")

\* path.name
PathName(p) == IF p = <<>> \/ p = <<Root>> THEN <<>> ELSE p[Len(p)]

\* path.parent
PathParent(p) ==
    IF p = <<>> \/ p = <<Root>> THEN p ELSE SubSeq(p, 1, Len(p) - 1)

\* path.suffix: the name from its last dot on, when that dot is neither the
\* first nor the last character of the name
PathSuffix(p) ==
    LET name == PathName(p)
        i == RFind(name, ".")
    IN  IF 1 < i /\ i < Len(name) THEN From(name, i) ELSE <<>>

\* path.stem
PathStem(p) ==
    LET name == PathName(p)
        i == RFind(name, ".")
    IN  IF 1 < i /\ i < Len(name) THEN SubSeq(name, 1, i - 1) ELSE name

\* path / name
PathJoin(dir, name) == dir \o <<name>>

\* whether path.relative_to(base) succeeds (it raises ValueError otherwise)
IsRelativeTo(p, base) ==
    Len(base) <= Len(p) /\ SubSeq(p, 1, Len(base)) = base

\* path.relative_to(base), where it succeeds
RelativeTo(p, base) == SubSeq(p, Len(base) + 1, Len(p))

(***************************************************************************)
(* urllib.parse as link_rewriter.py uses it.                               *)
(***************************************************************************)
\* the characters urlsplit accepts in a scheme
IsSchemeChar(c) == IsUpper(c) \/ IsLower(c) \/ c \in Digits \/ c \in {"+", "-", "."}

\* urlparse(url).scheme: the text before the first colon, lower-cased, when
\* it starts with a letter and holds scheme characters only
UrlScheme(url) ==
    LET i == Find(url, ":")
    IN  IF /\ i > 1
           /\ (IsUpper(url[1]) \/ IsLower(url[1]))
           /\ \A j \in 1..(i-1) : IsSchemeChar(url[j])
        THEN StrLower(SubSeq(url, 1, i - 1))
        ELSE <<>>

\* urlparse(url) raises ValueError("Invalid IPv6 URL"): the URL has a network
\* location ("//" after the scheme, up to the next "/", "?" or "#") that holds
\* one of "[" and "]" without the other
UrlParseRaises(url) ==
    LET rest == IF UrlScheme(url) # <<>> THEN From(url, Find(url, ":") + 1)
                ELSE url
        after == From(rest, 3)
        inside == {after[k] : k \in DOMAIN after} \ {"/", "?", "#"}
        netloc == SubSeq(after, 1, RunLength(after, inside))
        Has(c) == \E k \in DOMAIN netloc : netloc[k] = c
    IN  StartsWith(rest, <<"/","/">>) /\ (Has("[") # Has("]"))

\* unquote(text): %20 and %23 are the escapes of the modelled alphabet
RECURSIVE Unquote(_)
Unquote(s) ==
    IF s = <<>> THEN <<>>
    ELSE IF StartsWith(s, <<"%","2","0">>) THEN <<" ">> \o Unquote(From(s, 4))
    ELSE IF StartsWith(s, <<"%","2","3">>) THEN <<"#">> \o Unquote(From(s, 4))
    ELSE <<Head(s)>> \o Unquote(Tail(s))

(***************************************************************************)
(* LinkRewriter (normalizer/link_rewriter.py).                             *)
(***************************************************************************)
ExternalSchemes ==
    { <<"h","t","t","p">>, <<"h","t","t","p","s">>, <<"f","t","p">>,
      <<"m","a","i","l","t","o">> }

DocumentSuffixes ==
    { <<".","d","o","c","x">>, <<".","p","d","f">>, <<".","x","l","s","x">>,
      <<".","d","o","c">>, <<".","x","l","s">> }

UnresolvedMsg == "Unresolved document link: "

\* a warning text: a fixed message followed by the text it quotes
Warning(msg, arg) == [msg |-> msg, arg |-> arg, levels |-> <<>>]

\* _normalize_anchor without .replace(" ", "-"): the spaces are removed
NormalizeAnchorNoHyphen(anchor) ==
    IF anchor # <<>> /\ anchor[1] = "#"
    THEN LET lowered == StrLower(Tail(anchor))
             Kept(c) == IsLower(c) \/ c \in Digits \/ c = "-"
         IN  <<"#">> \o SelectSeq(lowered, Kept)
    ELSE anchor

\* LinkRewriter._normalize_anchor
NormalizeAnchor(anchor) ==
    IF anchor # <<>> /\ anchor[1] = "#"
    THEN LET anchor_text == Tail(anchor)
             hyphened == [i \in DOMAIN anchor_text |->
                            IF LowerChar(anchor_text[i]) = " " THEN "-"
                            ELSE LowerChar(anchor_text[i])]
             Kept(c) == IsLower(c) \/ c \in Digits \/ c = "-"
         IN  <<"#">> \o SelectSeq(hyphened, Kept)
    ELSE anchor

\* whether an item of converted_files matches the linked path
\* (the condition of the loop of _find_converted_file)
SourceMatches(src, source_path) ==
    \/ PathName(src) = PathName(source_path)
    \/ EndsWith(PathStr(src), PathStr(source_path))

\* LinkRewriter._find_converted_file: the dest of the first item, in
\* insertion order, whose source matches; <<>> stands for None
FindConvertedFile(files, source_path) ==
    LET hits == { i \in DOMAIN files : SourceMatches(files[i].src, source_path) }
    IN  IF hits = {} THEN [found |-> FALSE, dest |-> <<>>]
        ELSE [found |-> TRUE,
              dest |-> files[CHOOSE i \in hits : \A j \in hits : i <= j].dest]

\* the fragment _rewrite_url appends: "#" + url.split("#")[1]
UrlAnchor(url) ==
    IF Find(url, "#") > 0 THEN <<"#">> \o Split(url, "#")[2] ELSE <<>>

\* the path _rewrite_url looks up: Path(unquote(url.split("#")[0]))
UrlPath(url) == PathOf(Unquote(Split(url, "#")[1]))

\* _rewrite_url without the test of the extension: every relative URL is
\* looked up in the registry
RewriteUrlAnyExtension(url, files, current_file, output_dir) ==
    LET converted == FindConvertedFile(files, UrlPath(url))
    IN  IF UrlScheme(url) \in ExternalSchemes THEN [url |-> url, warnings |-> <<>>]
        ELSE IF StartsWith(url, <<"#">>)
        THEN [url |-> NormalizeAnchor(url), warnings |-> <<>>]
        ELSE IF converted.found /\ IsRelativeTo(converted.dest, output_dir)
        THEN [url |-> <<"/">> \o PathStr(RelativeTo(converted.dest, output_dir))
                        \o UrlAnchor(url),
              warnings |-> <<>>]
        ELSE [url |-> url, warnings |-> <<Warning(UnresolvedMsg, url)>>]

\* LinkRewriter._rewrite_url: the new URL and the warnings it appends
RewriteUrl(url, files, current_file, output_dir) ==
    LET unchanged == [url |-> url, warnings |-> <<>>]
        unresolved == [url |-> url,
                       warnings |-> <<Warning(UnresolvedMsg, url)>>]
    IN  IF UrlScheme(url) \in ExternalSchemes THEN unchanged
        ELSE IF StartsWith(url, <<"#">>)
        THEN [url |-> NormalizeAnchor(url), warnings |-> <<>>]
        ELSE IF StrLower(PathSuffix(UrlPath(url))) \in DocumentSuffixes
        THEN LET converted == FindConvertedFile(files, UrlPath(url))
             IN  IF ~converted.found THEN unresolved
                 ELSE IF IsRelativeTo(converted.dest, PathParent(current_file))
                 THEN [url |-> PathStr(RelativeTo(converted.dest,
                                                  PathParent(current_file)))
                                 \o UrlAnchor(url),
                       warnings |-> <<>>]
                 ELSE IF IsRelativeTo(converted.dest, output_dir)
                 THEN [url |-> <<"/">>
                                 \o PathStr(RelativeTo(converted.dest, output_dir))
                                 \o UrlAnchor(url),
                       warnings |-> <<>>]
                 ELSE unresolved
        ELSE unchanged

(***************************************************************************)
(* The regular-expression passes of LinkRewriter.rewrite_links and of      *)
(* ImageHandler.rewrite_image_paths over the Markdown text.                *)
(***************************************************************************)
NoMatch == [matched |-> FALSE, text |-> <<>>, url |-> <<>>, end |-> 0]

\* "[text](url)" at the start of s, for r"\[([^\]]+)\]\(([^)]+)\)"; with
\* empty_ok the text may be empty, as in r"\[([^\]]*)\]\(([^)]+)\)"
BracketMatch(s, empty_ok) ==
    IF s = <<>> \/ s[1] # "[" THEN NoMatch
    ELSE LET j == Find(Tail(s), "]") + 1        \* the place of "]" in s
         IN  IF j = 1 \/ (j = 2 /\ ~empty_ok) \/ Len(s) < j + 1 THEN NoMatch
             ELSE IF s[j + 1] # "(" THEN NoMatch
             ELSE LET k == Find(From(s, j + 2), ")")  \* ")" counted from "("
                  IN  IF k < 2 THEN NoMatch
                      ELSE [matched |-> TRUE,
                            text |-> SubSeq(s, 2, j - 1),
                            url |-> SubSeq(s, j + 2, j + k),
                            end |-> j + 1 + k]

\* str(path).replace("\\", "/")
ForwardSlashes(s) == [i \in DOMAIN s |-> IF s[i] = "\\" THEN "/" ELSE s[i]]

\* re.sub of the inline-link pattern with _rewrite_markdown_link
RECURSIVE InlinePass(_, _, _, _)
InlinePass(s, files, current_file, output_dir) ==
    IF s = <<>> THEN [content |-> <<>>, warnings |-> <<>>]
    ELSE LET m == BracketMatch(s, FALSE)
         IN  IF m.matched
             THEN LET r == RewriteUrl(m.url, files, current_file, output_dir)
                      rest == InlinePass(From(s, m.end + 1), files,
                                         current_file, output_dir)
                  IN  [content |-> <<"[">> \o m.text \o <<"]", "(">> \o r.url
                                     \o <<")">> \o rest.content,
                       warnings |-> r.warnings \o rest.warnings]
             ELSE LET rest == InlinePass(Tail(s), files, current_file, output_dir)
                  IN  [content |-> <<Head(s)>> \o rest.content,
                       warnings |-> rest.warnings]

\* "[ref]: url" as a whole line, for r"^\[([^\]]+)\]:\s*(.+)$"; the url is
\* what follows the white space, or the last white-space character when
\* nothing follows it
ReferenceMatch(line) ==
    IF line = <<>> \/ line[1] # "[" THEN NoMatch
    ELSE LET j == Find(Tail(line), "]") + 1
         IN  IF j < 3 \/ Len(line) < j + 1 THEN NoMatch
             ELSE IF line[j + 1] # ":" THEN NoMatch
             ELSE LET rest == From(line, j + 2)
                      w == RunLength(rest, Whitespace)
                      after == From(rest, w + 1)
                  IN  IF after # <<>>
                      THEN [matched |-> TRUE, text |-> SubSeq(line, 2, j - 1),
                            url |-> after, end |-> Len(line)]
                      ELSE IF w >= 1
                      THEN [matched |-> TRUE, text |-> SubSeq(line, 2, j - 1),
                            url |-> <<rest[w]>>, end |-> Len(line)]
                      ELSE NoMatch

\* re.sub of the reference-definition pattern with _rewrite_reference_link,
\* line by line (re.MULTILINE)
RECURSIVE ReferencePass(_, _, _, _)
ReferencePass(lines, files, current_file, output_dir) ==
    IF lines = <<>> THEN [lines |-> <<>>, warnings |-> <<>>]
    ELSE LET m == ReferenceMatch(Head(lines))
             r == RewriteUrl(m.url, files, current_file, output_dir)
             rest == ReferencePass(Tail(lines), files, current_file, output_dir)
         IN  IF m.matched
             THEN [lines |-> <<(<<"[">> \o m.text \o <<"]", ":", " ">> \o r.url)>>
                               \o rest.lines,
                   warnings |-> r.warnings \o rest.warnings]
             ELSE [lines |-> <<Head(lines)>> \o rest.lines,
                   warnings |-> rest.warnings]

\* LinkRewriter.rewrite_links: the new content and the warnings of the
\* rewriter afterwards
RewriteLinks(content, files, current_file, output_dir) ==
    LET inline == InlinePass(content, files, current_file, output_dir)
        refs == ReferencePass(Split(inline.content, NL), files,
                              current_file, output_dir)
    IN  [content |-> Join(refs.lines, NL),
         warnings |-> inline.warnings \o refs.warnings]


(***************************************************************************)
(* Filename sanitizer (utils/filename_sanitizer.py).  The disk is a        *)
(* function from the paths of the existing files to their content; dirs    *)
(* is the set of the existing directories.                                 *)
(***************************************************************************)
\* str(n) for a natural number
RECURSIVE IntToStr(_)
IntToStr(n) ==
    LET digit == <<"0","1","2","3","4","5","6","7","8","9">>[(n % 10) + 1]
    IN  IF n < 10 THEN <<digit>> ELSE IntToStr(n \div 10) \o <<digit>>

\* re.sub(r"-+", "-", name)
RECURSIVE CollapseDashes(_)
CollapseDashes(s) ==
    IF Len(s) < 2 THEN s
    ELSE IF s[1] = "-" /\ s[2] = "-" THEN CollapseDashes(Tail(s))
    ELSE <<s[1]>> \o CollapseDashes(Tail(s))

\* name.strip("-")
RECURSIVE StripDashes(_)
StripDashes(s) ==
    IF s = <<>> THEN s
    ELSE IF s[1] = "-" THEN StripDashes(Tail(s))
    ELSE IF s[Len(s)] = "-" THEN StripDashes(SubSeq(s, 1, Len(s) - 1))
    ELSE s

Unnamed == <<"u","n","n","a","m","e","d">>

\* sanitize_filename without re.sub(r"-+", "-", name)
SanitizeFilenameNoCollapse(filename, lowercase) ==
    LET path == PathOf(filename)
        name0 == PathStem(path)
        dashed == [i \in DOMAIN name0 |->
                     IF name0[i] \in {" ", "_"} THEN "-" ELSE name0[i]]
        Safe(c) == IsLower(c) \/ IsUpper(c) \/ c \in Digits \/ c \in {"-", "."}
        stripped == StripDashes(SelectSeq(dashed, Safe))
        cased == IF lowercase THEN StrLower(stripped) ELSE stripped
    IN  (IF cased = <<>> THEN Unnamed ELSE cased) \o PathSuffix(path)

\* sanitize_filename(filename, lowercase)
SanitizeFilename(filename, lowercase) ==
    LET path == PathOf(filename)
        name0 == PathStem(path)
        ext == PathSuffix(path)
        dashed == [i \in DOMAIN name0 |->
                     IF name0[i] \in {" ", "_"} THEN "-" ELSE name0[i]]
        Safe(c) == IsLower(c) \/ IsUpper(c) \/ c \in Digits \/ c \in {"-", "."}
        stripped == StripDashes(CollapseDashes(SelectSeq(dashed, Safe)))
        cased == IF lowercase THEN StrLower(stripped) ELSE stripped
    IN  (IF cased = <<>> THEN Unnamed ELSE cased) \o ext

\* path.exists()
Exists(files, directories, path) == path \in DOMAIN files \/ path \in directories

\* the loop of get_unique_filename left after its first turn, whether the
\* name is free or not
UniqueFromUnchecked(files, directories, base_path, stem, suffix, counter) ==
    PathJoin(base_path, stem \o <<"-">> \o IntToStr(counter) \o suffix)

\* the loop of get_unique_filename: the first counter from `counter` on
\* whose name is free
RECURSIVE UniqueFrom(_, _, _, _, _, _)
UniqueFrom(files, directories, base_path, stem, suffix, counter) ==
    LET path == PathJoin(base_path, stem \o <<"-">> \o IntToStr(counter) \o suffix)
    IN  IF ~Exists(files, directories, path) THEN path
        ELSE UniqueFrom(files, directories, base_path, stem, suffix, counter + 1)

FirstCounter == 2

\* get_unique_filename(base_path, desired_name)
GetUniqueFilename(files, directories, base_path, desired_name) ==
    IF ~Exists(files, directories, PathJoin(base_path, desired_name))
    THEN PathJoin(base_path, desired_name)
    ELSE UniqueFrom(files, directories, base_path,
                    PathStem(<<desired_name>>), PathSuffix(<<desired_name>>),
                    FirstCounter)

(***************************************************************************)
(* MarkdownNormalizer (normalizer/markdown_normalizer.py).                 *)
(***************************************************************************)
MaxHeadingLevel == 6

MultipleH1Msg == "Multiple H1 headings found, converted to H2: "
JumpMsg == "Heading level jump detected, adjusted: "

\* the jump warning quotes the last level, the level found and the new one
JumpWarning(title, last_level, level, new_level) ==
    [msg |-> JumpMsg, arg |-> title, levels |-> <<last_level, level, new_level>>]

\* "#" * n
RECURSIVE Hashes(_)
Hashes(n) == IF n = 0 THEN <<>> ELSE <<"#">> \o Hashes(n - 1)

\* re.match(r"^(#{1,6})\s+(.+)$", line): the hashes are the whole run of
\* "#" (at most six), white space follows, and the title is what follows
\* the white space; a line that ends in the white space gives its last
\* white-space character as the title when there are two or more
HeadingMatch(line) ==
    LET h == RunLength(line, {"#"})
        rest == From(line, h + 1)
        w == RunLength(rest, Whitespace)
        after == From(rest, w + 1)
    IN  IF h < 1 \/ h > MaxHeadingLevel \/ w < 1
        THEN [matched |-> FALSE, level |-> 0, title |-> <<>>]
        ELSE IF after # <<>>
        THEN [matched |-> TRUE, level |-> h, title |-> after]
        ELSE IF w >= 2
        THEN [matched |-> TRUE, level |-> h, title |-> <<rest[w]>>]
        ELSE [matched |-> FALSE, level |-> 0, title |-> <<>>]

\* HeadingStep that keeps every level-1 heading as it is
HeadingStepKeepsH1(st, line) ==
    LET m == HeadingMatch(line)
        jump == m.matched /\ st.last_level > 0 /\ m.level > st.last_level + 1
        new_level == st.last_level + 1
    IN  [lines |-> Append(st.lines,
                          IF jump THEN Hashes(new_level) \o <<" ">> \o m.title
                          ELSE line),
         warnings |-> st.warnings \o
                      (IF jump
                       THEN <<JumpWarning(m.title, st.last_level, m.level, new_level)>>
                       ELSE <<>>),
         h1_count |-> st.h1_count,
         last_level |-> IF ~m.matched THEN st.last_level
                        ELSE IF jump THEN new_level ELSE m.level]

\* HeadingStep that lowers a heading after a jump by one level only
HeadingStepReducesByOne(st, line) ==
    LET m == HeadingMatch(line)
        h1_count == IF m.matched /\ m.level = 1 THEN st.h1_count + 1
                    ELSE st.h1_count
        demoted == m.matched /\ m.level = 1 /\ h1_count > 1
        level == IF demoted THEN 2 ELSE m.level
        line1 == IF demoted THEN <<"#","#"," ">> \o m.title ELSE line
        warn1 == IF demoted THEN <<Warning(MultipleH1Msg, m.title)>> ELSE <<>>
        jump == m.matched /\ st.last_level > 0 /\ level > st.last_level + 1
        new_level == level - 1
        line2 == IF jump THEN Hashes(new_level) \o <<" ">> \o m.title ELSE line1
        warn2 == IF jump
                 THEN <<JumpWarning(m.title, st.last_level, level, new_level)>>
                 ELSE <<>>
    IN  [lines |-> Append(st.lines, line2),
         warnings |-> st.warnings \o warn1 \o warn2,
         h1_count |-> h1_count,
         last_level |-> IF ~m.matched THEN st.last_level
                        ELSE IF jump THEN new_level ELSE level]

\* HeadingStep that remembers the level found, not the adjusted one
HeadingStepLastFound(st, line) ==
    LET m == HeadingMatch(line)
        h1_count == IF m.matched /\ m.level = 1 THEN st.h1_count + 1
                    ELSE st.h1_count
        demoted == m.matched /\ m.level = 1 /\ h1_count > 1
        level == IF demoted THEN 2 ELSE m.level
        jump == m.matched /\ st.last_level > 0 /\ level > st.last_level + 1
        new_level == st.last_level + 1
    IN  [lines |-> Append(st.lines,
                          IF jump THEN Hashes(new_level) \o <<" ">> \o m.title
                          ELSE IF demoted THEN <<"#","#"," ">> \o m.title
                          ELSE line),
         warnings |-> st.warnings
                      \o (IF demoted THEN <<Warning(MultipleH1Msg, m.title)>>
                          ELSE <<>>)
                      \o (IF jump
                          THEN <<JumpWarning(m.title, st.last_level, level, new_level)>>
                          ELSE <<>>),
         h1_count |-> h1_count,
         last_level |-> IF ~m.matched THEN st.last_level ELSE level]

\* one turn of the loop of normalize_headings on `line`, from the running
\* state st = [lines, warnings, h1_count, last_level]
HeadingStep(st, line) ==
    LET m == HeadingMatch(line)
        h1_count == IF m.matched /\ m.level = 1 THEN st.h1_count + 1
                    ELSE st.h1_count
        demoted == m.matched /\ m.level = 1 /\ h1_count > 1
        level == IF demoted THEN 2 ELSE m.level
        line1 == IF demoted THEN <<"#","#"," ">> \o m.title ELSE line
        warn1 == IF demoted THEN <<Warning(MultipleH1Msg, m.title)>> ELSE <<>>
        jump == m.matched /\ st.last_level > 0 /\ level > st.last_level + 1
        new_level == st.last_level + 1
        line2 == IF jump THEN Hashes(new_level) \o <<" ">> \o m.title ELSE line1
        warn2 == IF jump
                 THEN <<JumpWarning(m.title, st.last_level, level, new_level)>>
                 ELSE <<>>
    IN  [lines |-> Append(st.lines, line2),
         warnings |-> st.warnings \o warn1 \o warn2,
         h1_count |-> h1_count,
         last_level |-> IF ~m.matched THEN st.last_level
                        ELSE IF jump THEN new_level ELSE level]

RECURSIVE HeadingLoop(_, _)
HeadingLoop(st, lines) ==
    IF lines = <<>> THEN st
    ELSE HeadingLoop(HeadingStep(st, Head(lines)), Tail(lines))

\* MarkdownNormalizer.normalize_headings: (content, warnings)
NormalizeHeadings(content) ==
    LET st == HeadingLoop([lines |-> <<>>, warnings |-> <<>>,
                           h1_count |-> 0, last_level |-> 0],
                          Split(content, NL))
    IN  [content |-> Join(st.lines, NL), warnings |-> st.warnings]

\* str.rstrip() for the modelled white space (which includes the newline)
RECURSIVE RStrip(_)
RStrip(s) ==
    IF s # <<>> /\ s[Len(s)] \in (Whitespace \cup {NL})
    THEN RStrip(SubSeq(s, 1, Len(s) - 1))
    ELSE s

MaxBlankLines == 2

\* BlankLoop that lets one more blank line through (`<` taken for `<=`)
RECURSIVE BlankLoopOneMore(_, _, _)
BlankLoopOneMore(lines, blank_count, acc) ==
    IF lines = <<>> THEN acc
    ELSE IF RStrip(Head(lines)) = <<>>
    THEN BlankLoopOneMore(Tail(lines), blank_count + 1,
                          IF blank_count <= MaxBlankLines
                          THEN Append(acc, Head(lines)) ELSE acc)
    ELSE BlankLoopOneMore(Tail(lines), 0, Append(acc, Head(lines)))

\* the loop of normalize_whitespace that drops the blank lines beyond two
RECURSIVE BlankLoop(_, _, _)
BlankLoop(lines, blank_count, acc) ==
    IF lines = <<>> THEN acc
    ELSE IF RStrip(Head(lines)) = <<>>
    THEN BlankLoop(Tail(lines), blank_count + 1,
                   IF blank_count + 1 <= MaxBlankLines
                   THEN Append(acc, Head(lines)) ELSE acc)
    ELSE BlankLoop(Tail(lines), 0, Append(acc, Head(lines)))

\* normalize_whitespace without the final rstrip: a newline is appended to
\* whatever the lines join to
NormalizeWhitespaceNoFinalStrip(content) ==
    LET raw == Split(content, NL)
        lines == [i \in DOMAIN raw |-> RStrip(raw[i])]
    IN  Join(BlankLoop(lines, 0, <<>>), NL) \o <<NL>>

\* MarkdownNormalizer.normalize_whitespace
NormalizeWhitespace(content) ==
    LET raw == Split(content, NL)
        lines == [i \in DOMAIN raw |-> RStrip(raw[i])]
    IN  RStrip(Join(BlankLoop(lines, 0, <<>>), NL)) \o <<NL>>

FrontMatterFence == <<"-","-","-">>
TitleKey == <<"t","i","t","l","e",":"," ">>
SourceKey == <<"s","o","u","r","c","e",":"," ">>
ConvertedAtKey == <<"c","o","n","v","e","r","t","e","d","_","a","t",":"," ">>

\* the "key: value" lines of the extra metadata, in insertion order
ExtraLines(extra) == [i \in DOMAIN extra |-> extra[i].key \o <<":"," ">> \o extra[i].value]

\* MarkdownNormalizer.add_front_matter
AddFrontMatter(content, title, source, converted_at, extra) ==
    Join(<<FrontMatterFence, TitleKey \o title, SourceKey \o source,
           ConvertedAtKey \o converted_at>>
         \o ExtraLines(extra)
         \o <<FrontMatterFence, <<>>>>, NL) \o content

(***************************************************************************)
(* ImageHandler (normalizer/image_handler.py).                             *)
(***************************************************************************)
\* a file on the disk: its content and the source document it was written
\* for (<<>> for a file that was there before the run)
DiskFile(text, by) == [text |-> text, by |-> by]

\* files with `path` (over)written
WriteFile(files, path, text, by) ==
    [q \in (DOMAIN files) \cup {path} |->
        IF q = path THEN DiskFile(text, by) ELSE files[q]]

\* path.mkdir(parents=True, exist_ok=True): the directory and its parents
MkdirParents(directories, path) ==
    directories \cup { SubSeq(path, 1, n) : n \in 1..Len(path) }

\* ImageHandler.__init__: the directory of the images of a document
ImageDir(assets_dir, document_name) ==
    PathJoin(assets_dir, SanitizeFilename(PathStem(PathOf(document_name)), TRUE))

\* the path save_images records for an image, as seen from the Markdown file
ImageRelPath(image_path, markdown_file, output_dir) ==
    IF IsRelativeTo(image_path, PathParent(markdown_file))
    THEN ForwardSlashes(PathStr(RelativeTo(image_path, PathParent(markdown_file))))
    ELSE IF IsRelativeTo(image_path, output_dir)
    THEN <<"/">> \o ForwardSlashes(PathStr(RelativeTo(image_path, output_dir)))
    ELSE ForwardSlashes(PathStr(image_path))

\* the loop of save_images writing each image under its sanitized name,
\* taken or not
RECURSIVE SaveLoopNoUnique(_, _, _, _, _, _, _, _)
SaveLoopNoUnique(images, files, directories, image_dir, markdown_file, output_dir, by, mapping) ==
    IF images = <<>> THEN [files |-> files, mapping |-> mapping]
    ELSE LET image == Head(images)
             image_path == PathJoin(image_dir, SanitizeFilename(image.name, TRUE))
             rel == ImageRelPath(image_path, markdown_file, output_dir)
         IN  SaveLoopNoUnique(Tail(images),
                              WriteFile(files, image_path, image.bytes, by),
                              directories, image_dir, markdown_file, output_dir,
                              by, Append(mapping, [name |-> image.name, path |-> rel]))

\* the loop of save_images over the items of `images`
RECURSIVE SaveLoop(_, _, _, _, _, _, _, _)
SaveLoop(images, files, directories, image_dir, markdown_file, output_dir, by, mapping) ==
    IF images = <<>> THEN [files |-> files, mapping |-> mapping]
    ELSE LET image == Head(images)
             image_path == GetUniqueFilename(files, directories, image_dir,
                                             SanitizeFilename(image.name, TRUE))
             rel == ImageRelPath(image_path, markdown_file, output_dir)
             seen == { i \in DOMAIN mapping : mapping[i].name = image.name }
             mapping2 == IF seen = {}
                         THEN Append(mapping, [name |-> image.name, path |-> rel])
                         ELSE [i \in DOMAIN mapping |->
                                 IF i \in seen THEN [name |-> image.name, path |-> rel]
                                 ELSE mapping[i]]
         IN  SaveLoop(Tail(images), WriteFile(files, image_path, image.bytes, by),
                      directories, image_dir, markdown_file, output_dir, by,
                      mapping2)

\* save_images with the directory made before the images are looked at
SaveImagesMkdirFirst(images, files, directories, image_dir, markdown_file, output_dir, by) ==
    LET made == MkdirParents(directories, image_dir)
        saved == SaveLoop(images, files, made, image_dir, markdown_file,
                          output_dir, by, <<>>)
    IN  [files |-> saved.files, dirs |-> made, mapping |-> saved.mapping]

\* ImageHandler.save_images: the disk afterwards and the mapping returned
SaveImages(images, files, directories, image_dir, markdown_file, output_dir, by) ==
    IF images = <<>>
    THEN [files |-> files, dirs |-> directories, mapping |-> <<>>]
    ELSE LET made == MkdirParents(directories, image_dir)
             saved == SaveLoop(images, files, made, image_dir, markdown_file,
                               output_dir, by, <<>>)
         IN  [files |-> saved.files, dirs |-> made, mapping |-> saved.mapping]

\* image_mapping.get(key, default)
MappingGet(mapping, key, default) ==
    LET hits == { i \in DOMAIN mapping : mapping[i].name = key }
    IN  IF hits = {} THEN default ELSE mapping[CHOOSE i \in hits : TRUE].path

\* re.sub of r"!\[([^\]]*)\]\(([^)]+)\)" with replace_image
RECURSIVE ImagePass(_, _)
ImagePass(s, mapping) ==
    IF s = <<>> THEN <<>>
    ELSE LET m == IF s[1] = "!" THEN BracketMatch(Tail(s), TRUE) ELSE NoMatch
         IN  IF m.matched
             THEN LET new_path == MappingGet(mapping, PathName(PathOf(m.url)),
                                     MappingGet(mapping, m.url, m.url))
                  IN  <<"!", "[">> \o m.text \o <<"]", "(">> \o new_path \o <<")">>
                      \o ImagePass(From(s, m.end + 2), mapping)
             ELSE <<Head(s)>> \o ImagePass(Tail(s), mapping)

\* ImageHandler.rewrite_image_paths
RewriteImagePaths(content, mapping) ==
    IF mapping = <<>> THEN content ELSE ImagePass(content, mapping)

(***************************************************************************)
(* ConversionResult (core/base_converter.py); scores in hundredths.        *)
(***************************************************************************)
FullScore == 100
WarningPenalty == 5
ErrorPenalty == 20

Max(a, b) == IF a >= b THEN a ELSE b

\* ConversionResult(success=True)
NewResult ==
    [success |-> TRUE, markdown_content |-> <<>>, images |-> <<>>,
     warnings |-> <<>>, errors |-> <<>>, quality_score |-> FullScore,
     metadata |-> <<>>]

\* ConversionResult.add_warning
AddWarning(r, message) ==
    [r EXCEPT !.warnings = Append(@, message),
              !.quality_score = Max(0, @ - WarningPenalty)]

\* ConversionResult.add_error
AddError(r, message) ==
    [r EXCEPT !.errors = Append(@, message),
              !.success = FALSE,
              !.quality_score = Max(0, @ - ErrorPenalty)]

(***************************************************************************)
(* ConversionReport (core/report.py).  The average is the exact quotient   *)
(* sum / count, kept as a fraction in lowest terms.                        *)
(***************************************************************************)
RECURSIVE Gcd(_, _)
Gcd(a, b) == IF b = 0 THEN a ELSE Gcd(b, a % b)

\* a / b as a fraction in lowest terms (b > 0)
Quotient(a, b) ==
    LET g == Gcd(a, b)
    IN  IF a = 0 THEN [num |-> 0, den |-> 1]
        ELSE [num |-> a \div g, den |-> b \div g]

RECURSIVE SumScores(_)
SumScores(files) ==
    IF files = <<>> THEN 0 ELSE Head(files).quality_score + SumScores(Tail(files))

\* FileReport(...)
FileReport(source_file, output_file, success, warnings, errors, quality_score, converter_used) ==
    [source_file |-> source_file, output_file |-> output_file,
     success |-> success, warnings |-> warnings, errors |-> errors,
     quality_score |-> quality_score, converter_used |-> converter_used]

\* ConversionReport()
NewReport ==
    [files |-> <<>>, total_files |-> 0, successful |-> 0, failed |-> 0,
     average_quality_score |-> Quotient(0, 1), end_time |-> "None"]

\* _update_average_quality dividing by the successful files only
UpdateAverageOverSuccessful(rep) ==
    Quotient(SumScores(rep.files), Max(1, rep.successful))

\* ConversionReport._update_average_quality: the new average
UpdateAverageQuality(rep) ==
    IF rep.files # <<>>
    THEN Quotient(SumScores(rep.files), Len(rep.files))
    ELSE rep.average_quality_score

\* ConversionReport.add_file_report
AddFileReport(rep, file_report) ==
    LET added == [rep EXCEPT
                    !.files = Append(@, file_report),
                    !.total_files = @ + 1,
                    !.successful = IF file_report.success THEN @ + 1 ELSE @,
                    !.failed = IF file_report.success THEN @ ELSE @ + 1]
    IN  [added EXCEPT !.average_quality_score = UpdateAverageQuality(added)]

\* ConversionReport.finalize
FinalizeReport(rep) == [rep EXCEPT !.end_time = "now"]

(***************************************************************************)
(* The documents of a run.  What the external converters return for a      *)
(* source is an input of the model: its text, images and metadata are      *)
(* fixed per source below, and whether the extraction succeeds and how     *)
(* many warnings it gives is chosen when the converter is called.          *)
(***************************************************************************)
MaxFiles == 2

In == <<"i","n">>
Out == <<"o","u","t">>
Assets == <<"a","s","s","e","t","s">>
ReportName ==
    <<"c","o","n","v","e","r","s","i","o","n","-","r","e","p","o","r","t",
      ".","j","s","o","n">>
MdSuffix == <<".","m","d">>

ADocx == <<In, <<"a",".","d","o","c","x">>>>
BDocx == <<In, <<"b",".","d","o","c","x">>>>
APdf == <<In, <<"a",".","p","d","f">>>>
CTxt == <<In, <<"c",".","t","x","t">>>>
AMd == <<Out, <<"a",".","m","d">>>>

\* what _collect_files can find, and what a web client can upload
CliSources == {ADocx, BDocx, APdf}
WebSources == {ADocx, BDocx, APdf, CTxt}

\* the Markdown the converter extracts from a source
DocText(src) ==
    CASE src = ADocx ->
           <<"#"," ","A",NL,"[","b","]","(","b",".","d","o","c","x","#","I","n","t","r","o",")",NL>>
      [] src = BDocx ->
           <<"#"," ","B",NL,"#","#","#"," ","I","n","t","r","o"," ",NL,NL,NL,NL>>
      [] src = APdf ->
           <<"!","[","i","]","(","p",".","p","n","g",")",NL,
             "[","w","]","(","h","t","t","p","s",":","/","/","w",")",NL>>
      [] OTHER -> <<>>

\* the images the converter extracts from a source
DocImages(src) ==
    IF src = APdf
    THEN <<[name |-> <<"p",".","p","n","g">>, bytes |-> <<"P","N","G">>]>>
    ELSE <<>>

\* the metadata the converter extracts from a source
DocMetadata(src) ==
    IF src = BDocx
    THEN <<[key |-> <<"t","i","t","l","e">>, value |-> <<"B","e","e">>],
           [key |-> <<"a","u","t","h","o","r">>, value |-> <<"m","e">>]>>
    ELSE <<>>

\* the numbers of warnings an extraction may give
ExtractWarningCounts == {0, 1, 20}

ExtractWarningMsg == "extraction warning"
ExtractErrorMsg == "Conversion failed: "

RECURSIVE WithWarnings(_, _)
WithWarnings(r, n) ==
    IF n = 0 THEN r
    ELSE WithWarnings(AddWarning(r, Warning(ExtractWarningMsg, <<>>)), n - 1)

\* converter.convert(file_path) of DocxConverter, PdfConverter and
\* XlsxConverter: warnings through add_warning, a failure through add_error
ConverterConvert(src, ok, n) ==
    LET warned == WithWarnings(NewResult, n)
    IN  IF ok
        THEN [warned EXCEPT !.markdown_content = DocText(src),
                            !.images = DocImages(src),
                            !.metadata = DocMetadata(src)]
        ELSE AddError(warned, Warning(ExtractErrorMsg, <<>>))

\* the first converter whose can_convert accepts the path
ConverterFor(file_path) ==
    LET suffix == StrLower(PathSuffix(file_path))
    IN  IF suffix \in {<<".","d","o","c","x">>, <<".","d","o","c">>}
        THEN "DocxConverter"
        ELSE IF suffix = <<".","p","d","f">> THEN "PdfConverter"
        ELSE IF suffix \in {<<".","x","l","s","x">>, <<".","x","l","s">>}
        THEN "XlsxConverter"
        ELSE "None"

\* the sequences of at most MaxFiles distinct elements of S
Batches(S) ==
    UNION { { f \in [1..n -> S] : \A i, j \in 1..n : i # j => f[i] # f[j] }
            : n \in 0..MaxFiles }

(***************************************************************************)
(* cli.py helpers.                                                         *)
(***************************************************************************)
\* _get_output_path(file_path, config); the input path is a directory
GetOutputPath(file_path, cfg) ==
    LET sanitized_name == SanitizeFilename(PathStem(file_path), TRUE) \o MdSuffix
        output_dir == IF IsRelativeTo(PathParent(file_path), cfg.input_path)
                      THEN cfg.output_dir
                           \o RelativeTo(PathParent(file_path), cfg.input_path)
                      ELSE cfg.output_dir
    IN  PathJoin(output_dir, sanitized_name)

\* the output path of convert_single_file (web/app.py)
WebOutputPath(file_path, cfg) ==
    PathJoin(cfg.output_dir, SanitizeFilename(PathStem(file_path), TRUE) \o MdSuffix)

\* str.title()
StrTitle(s) ==
    [i \in DOMAIN s |->
        LET c == s[i]
            after_cased == i > 1 /\ (IsUpper(s[i-1]) \/ IsLower(s[i-1]))
        IN  IF after_cased THEN LowerChar(c)
            ELSE IF IsLower(c) THEN Upper[CHOOSE k \in DOMAIN Lower : Lower[k] = c]
            ELSE c]

\* dict.get / the items of a dict but for one key
DictHas(d, key) == \E i \in DOMAIN d : d[i].key = key
DictGet(d, key) == d[CHOOSE i \in DOMAIN d : d[i].key = key].value

TitleName == <<"t","i","t","l","e">>
NowText == <<"n","o","w">>

\* the title of the front matter: the metadata's, or the stem in title case
FrontMatterTitle(file_path, metadata) ==
    IF DictHas(metadata, TitleName) THEN DictGet(metadata, TitleName)
    ELSE StrTitle([i \in DOMAIN PathStem(file_path) |->
                     IF PathStem(file_path)[i] = "-" THEN " "
                     ELSE PathStem(file_path)[i]])

NotTitle(item) == item.key # TitleName

(***************************************************************************)
(* State.                                                                  *)
(***************************************************************************)
VARIABLES
    app,              \* "cli": convert of cli.py; "web": process_conversion;
                      \* "rewriter", "report": a component on its own
    config,           \* ConversionConfig: the fields the pipeline reads
    converted_files,  \* config.converted_files, the conversion registry
    files_to_convert, \* the sources of the run, in processing order
    idx,              \* the place in files_to_convert of the current file
    pc,               \* where the run stands
    disk,             \* the files on the disk: path -> DiskFile
    dirs,             \* the directories on the disk
    report,           \* the ConversionReport of the run
    report_json,      \* what to_json wrote to config.report_path, if anything
    job,              \* conversion_jobs[job_id] of the web job
    result,           \* the ConversionResult of the current file
    markdown,         \* the local `markdown` of _convert_file
    output_path,      \* the local `output_path` of _convert_file
    stages,           \* the stages the current file went through, in order
    url,              \* the argument of LinkRewriter._rewrite_url
    new_url,          \* what _rewrite_url returned
    current_file,     \* LinkRewriter.current_file
    warnings,         \* LinkRewriter.warnings
    arg,              \* the arguments of a function called on its own
    ret,              \* what that function returned
    job_ids,          \* the job ids uuid4 has given out
    conversion_jobs,  \* conversion_jobs of the web application: id -> job
    tasks,            \* the process_conversion tasks: id -> their locals
    cleanup_tasks,    \* how many cleanup_job(id, delay=60) tasks sleep
    response          \* the response to the last HTTP request

vars == <<app, config, converted_files, files_to_convert, idx, pc, disk, dirs,
          report, report_json, job, result, markdown, output_path, stages,
          url, new_url, current_file, warnings, arg, ret,
          job_ids, conversion_jobs, tasks, cleanup_tasks, response>>

runVarsButPc == <<files_to_convert, idx, disk, dirs, report_json, job, result,
                  markdown, output_path, stages>>
rewriterVars == <<url, new_url, current_file, warnings, arg, ret>>
serviceVars == <<job_ids, conversion_jobs, tasks, cleanup_tasks, response>>

\* ConversionConfig(...) with __post_init__
ConversionConfig(input_path, output_dir, overwrite, front_matter) ==
    [input_path |-> input_path, output_dir |-> output_dir,
     assets_dir |-> PathJoin(output_dir, Assets),
     report_path |-> PathJoin(output_dir, ReportName),
     overwrite |-> overwrite, front_matter |-> front_matter]

NoJob == [status |-> "none", progress |-> 0, report |-> <<>>, error |-> <<>>]
OldText == <<"o","l","d">>

\* the values the variables of a part that is not running are left at
RunIdle ==
    /\ files_to_convert = <<>> /\ idx = 0
    /\ disk = <<>> /\ dirs = {} /\ report_json = <<>> /\ job = NoJob
    /\ result = NewResult /\ markdown = <<>> /\ output_path = <<>>
    /\ stages = <<>>
RewriterIdle ==
    /\ url = <<>> /\ new_url = <<>> /\ current_file = <<>> /\ warnings = <<>>
    /\ arg = <<>> /\ ret = <<>>
ServiceIdle ==
    /\ job_ids = {} /\ conversion_jobs = <<>> /\ tasks = <<>>
    /\ cleanup_tasks = <<>> /\ response = <<>>

\* the locals of _convert_file before the first file
NoFile ==
    /\ result = NewResult /\ markdown = <<>> /\ output_path = <<>>
    /\ stages = <<>>

\* the command line: `convert INPUT --out OUT [--overwrite]
\* [--no-front-matter]`, on a disk where OUT/a.md may exist already
InitCli ==
    /\ app = "cli"
    /\ \E overwrite \in BOOLEAN, front_matter \in BOOLEAN :
          config = ConversionConfig(<<In>>, <<Out>>, overwrite, front_matter)
    /\ converted_files = <<>>
    /\ files_to_convert \in Batches(CliSources)
    /\ idx = 0 /\ pc = "start"
    /\ \E old \in BOOLEAN :
          /\ disk = IF old THEN AMd :> DiskFile(OldText, <<>>) ELSE <<>>
          /\ dirs = IF old THEN {<<In>>, <<Out>>} ELSE {<<In>>}
    /\ report = NewReport /\ report_json = <<>> /\ job = NoJob
    /\ NoFile /\ RewriterIdle /\ ServiceIdle

\* the web job right after upload_files: the uploaded files are saved, the
\* job is "processing", process_conversion has not run yet
InitWeb ==
    /\ app = "web"
    /\ config = ConversionConfig(<<In>>, <<Out>>, TRUE, TRUE)
    /\ converted_files = <<>>
    /\ files_to_convert \in Batches(WebSources)
    /\ idx = 0 /\ pc = "start"
    /\ disk = <<>> /\ dirs = {<<In>>, <<Out>>}
    /\ report = NewReport /\ report_json = <<>>
    /\ job = [NoJob EXCEPT !.status = "processing"]
    /\ NoFile /\ RewriterIdle /\ ServiceIdle

Init == InitCli \/ InitWeb

file_path == files_to_convert[idx]

\* the loop of convert / process_conversion moves to the next file, or to
\* the end of the loop
NextFile ==
    /\ idx' = idx + 1
    /\ pc' = IF idx + 1 <= Len(files_to_convert) THEN "convert" ELSE "finalize"
    /\ job' = IF app = "web" /\ idx + 1 <= Len(files_to_convert)
              THEN [job EXCEPT !.progress = (idx * 100) \div Len(files_to_convert)]
              ELSE job

\* an exception leaves _convert_file / convert_single_file: convert of
\* cli.py has no handler, so it leaves convert too; process_conversion
\* catches it after the loop
Raise(message) ==
    /\ pc' = IF app = "cli" THEN "raised" ELSE "done"
    /\ job' = IF app = "web"
              THEN [job EXCEPT !.status = "failed", !.error = <<message>>]
              ELSE job
    /\ UNCHANGED <<idx, report, report_json>>

(***************************************************************************)
(* The run: convert of cli.py and process_conversion of web/app.py, with   *)
(* _convert_file / convert_single_file one stage at a time.                *)
(***************************************************************************)
\* convert, up to the loop: no report and no output when nothing was
\* collected; process_conversion, up to the loop
Start ==
    /\ pc = "start"
    /\ IF app = "cli" /\ files_to_convert = <<>>
       THEN /\ pc' = "done"
            /\ UNCHANGED <<idx, job, dirs>>
       ELSE /\ NextFile
            /\ dirs' = IF app = "cli" THEN MkdirParents(dirs, config.output_dir)
                       ELSE dirs
    /\ UNCHANGED <<app, config, converted_files, files_to_convert, disk, report,
                   report_json, result, markdown, output_path, stages>>
    /\ UNCHANGED rewriterVars
    /\ UNCHANGED serviceVars

\* FailedReport that drops what the extraction had gathered
FailedReportBare(source, r, converter) ==
    FileReport(source, <<>>, FALSE, <<>>, r.errors, FullScore, converter)

\* the FileReport of a file whose extraction failed
FailedReport(source, r, converter) ==
    FileReport(source, <<>>, FALSE, r.warnings, r.errors, r.quality_score,
               converter)

\* str(file_path) in cli.py, str(file_path.name) in convert_single_file
SourceText(path) == IF app = "cli" THEN PathStr(path) ELSE PathName(path)

NoConverterMsg == "No converter found for "

\* process_conversion: no converter accepts the file
NoConverter ==
    /\ pc = "convert" /\ app = "web"
    /\ ConverterFor(file_path) = "None"
    /\ report' = AddFileReport(report,
                    FileReport(PathStr(file_path), <<>>, FALSE, <<>>,
                               <<Warning(NoConverterMsg, PathSuffix(file_path))>>,
                               FullScore, "None"))
    /\ NextFile
    /\ UNCHANGED <<app, config, converted_files, files_to_convert, disk, dirs,
                   report_json, result, markdown, output_path, stages>>
    /\ UNCHANGED rewriterVars
    /\ UNCHANGED serviceVars

\* converter.convert(file_path) reports a failure: the failed FileReport is
\* returned and added to the report
ExtractFails ==
    /\ pc = "convert"
    /\ ConverterFor(file_path) # "None"
    /\ \E n \in ExtractWarningCounts :
          LET r == ConverterConvert(file_path, FALSE, n)
          IN  /\ result' = r
              /\ report' = AddFileReport(report,
                              FailedReport(PathStr(file_path), r,
                                           ConverterFor(file_path)))
    /\ stages' = <<"extract">>
    /\ NextFile
    /\ UNCHANGED <<app, config, converted_files, files_to_convert, disk, dirs,
                   report_json, markdown, output_path>>
    /\ UNCHANGED rewriterVars
    /\ UNCHANGED serviceVars

\* converter.convert(file_path) succeeds
Extract ==
    /\ pc = "convert"
    /\ ConverterFor(file_path) # "None"
    /\ \E n \in ExtractWarningCounts :
          result' = ConverterConvert(file_path, TRUE, n)
    /\ markdown' = result'.markdown_content
    /\ stages' = <<"extract">>
    /\ pc' = "headings"
    /\ UNCHANGED <<app, config, converted_files, files_to_convert, idx, disk,
                   dirs, report, report_json, job, output_path>>
    /\ UNCHANGED rewriterVars
    /\ UNCHANGED serviceVars

\* markdown, heading_warnings = normalizer.normalize_headings(markdown);
\* result.warnings.extend(heading_warnings)
HeadingsStage ==
    /\ pc = "headings"
    /\ LET n == NormalizeHeadings(markdown)
       IN  /\ markdown' = n.content
           /\ result' = [result EXCEPT !.warnings = @ \o n.warnings]
    /\ stages' = Append(stages, "headings")
    /\ pc' = "whitespace"
    /\ UNCHANGED <<app, config, converted_files, files_to_convert, idx, disk,
                   dirs, report, report_json, job, output_path>>
    /\ UNCHANGED rewriterVars
    /\ UNCHANGED serviceVars

\* markdown = normalizer.normalize_whitespace(markdown)
WhitespaceStage ==
    /\ pc = "whitespace"
    /\ markdown' = NormalizeWhitespace(markdown)
    /\ stages' = Append(stages, "whitespace")
    /\ pc' = "images"
    /\ UNCHANGED <<app, config, converted_files, files_to_convert, idx, disk,
                   dirs, report, report_json, job, result, output_path>>
    /\ UNCHANGED rewriterVars
    /\ UNCHANGED serviceVars

\* the output path both orchestrators propose for the current file
ProposedPath ==
    IF app = "cli" THEN GetOutputPath(file_path, config)
    ELSE WebOutputPath(file_path, config)

\* output_path = ...; image_handler.save_images(result.images, output_path);
\* markdown = image_handler.rewrite_image_paths(markdown, image_mapping)
ImagesStage ==
    /\ pc = "images"
    /\ LET saved == SaveImages(result.images, disk, dirs,
                               ImageDir(config.assets_dir, PathName(file_path)),
                               ProposedPath, config.output_dir, file_path)
       IN  /\ disk' = saved.files
           /\ dirs' = saved.dirs
           /\ markdown' = RewriteImagePaths(markdown, saved.mapping)
    /\ output_path' = ProposedPath
    /\ stages' = Append(stages, "images")
    /\ pc' = "links"
    /\ UNCHANGED <<app, config, converted_files, files_to_convert, idx, report,
                   report_json, job, result>>
    /\ UNCHANGED rewriterVars
    /\ UNCHANGED serviceVars

ImageErrorMsg == "OSError: cannot write image"
WriteErrorMsg == "OSError: cannot write output"

\* save_images raises: the image directory or an image cannot be written
ImagesStageRaises ==
    /\ pc = "images"
    /\ result.images # <<>>
    /\ Raise(ImageErrorMsg)
    /\ output_path' = ProposedPath
    /\ stages' = Append(stages, "images")
    /\ UNCHANGED <<app, config, converted_files, files_to_convert, disk, dirs,
                   result, markdown>>
    /\ UNCHANGED rewriterVars
    /\ UNCHANGED serviceVars

\* link_rewriter = LinkRewriter(config, output_path);
\* markdown = link_rewriter.rewrite_links(markdown);
\* result.warnings.extend(link_rewriter.warnings)
LinksStage ==
    /\ pc = "links"
    /\ LET r == RewriteLinks(markdown, converted_files, output_path,
                             config.output_dir)
       IN  /\ markdown' = r.content
           /\ result' = [result EXCEPT !.warnings = @ \o r.warnings]
    /\ stages' = Append(stages, "links")
    /\ pc' = "front_matter"
    /\ UNCHANGED <<app, config, converted_files, files_to_convert, idx, disk,
                   dirs, report, report_json, job, output_path>>
    /\ UNCHANGED rewriterVars
    /\ UNCHANGED serviceVars

\* FrontMatterStage that leaves the file unwritten: the front matter is the
\* last stage before the file is registered and reported
FrontMatterStageNoWrite ==
    /\ pc = "front_matter"
    /\ IF config.front_matter
       THEN /\ markdown' = AddFrontMatter(markdown,
                              FrontMatterTitle(file_path, result.metadata),
                              SourceText(file_path), NowText,
                              SelectSeq(result.metadata, NotTitle))
            /\ stages' = Append(stages, "front_matter")
       ELSE UNCHANGED <<markdown, stages>>
    /\ pc' = "register"
    /\ UNCHANGED <<app, config, converted_files, files_to_convert, idx, disk,
                   dirs, report, report_json, job, result, output_path>>
    /\ UNCHANGED rewriterVars
    /\ UNCHANGED serviceVars

\* if config.front_matter: markdown = normalizer.add_front_matter(...)
FrontMatterStage ==
    /\ pc = "front_matter"
    /\ IF config.front_matter
       THEN /\ markdown' = AddFrontMatter(markdown,
                              FrontMatterTitle(file_path, result.metadata),
                              SourceText(file_path), NowText,
                              SelectSeq(result.metadata, NotTitle))
            /\ stages' = Append(stages, "front_matter")
       ELSE UNCHANGED <<markdown, stages>>
    /\ pc' = "write"
    /\ UNCHANGED <<app, config, converted_files, files_to_convert, idx, disk,
                   dirs, report, report_json, job, result, output_path>>
    /\ UNCHANGED rewriterVars
    /\ UNCHANGED serviceVars

\* WritePath without the collision check
WritePathProposed(files, directories, proposed, overwrite) == proposed

\* the path the file is written to: a unique one when the proposed path
\* exists and overwrite is off
WritePath(files, directories, proposed, overwrite) ==
    IF Exists(files, directories, proposed) /\ ~overwrite
    THEN GetUniqueFilename(files, directories, PathParent(proposed),
                           PathName(proposed))
    ELSE proposed

\* output_path.parent.mkdir(...); the collision check;
\* output_path.write_text(markdown)
WriteStage ==
    /\ pc = "write"
    /\ LET made == MkdirParents(dirs, PathParent(output_path))
           path == WritePath(disk, made, output_path, config.overwrite)
       IN  /\ dirs' = made
           /\ output_path' = path
           /\ disk' = WriteFile(disk, path, markdown, file_path)
    /\ stages' = Append(stages, "write")
    /\ pc' = "register"
    /\ UNCHANGED <<app, config, converted_files, files_to_convert, idx, report,
                   report_json, job, result, markdown>>
    /\ UNCHANGED rewriterVars
    /\ UNCHANGED serviceVars

\* write_text raises (disk full, permission denied)
WriteStageRaises ==
    /\ pc = "write"
    /\ Raise(WriteErrorMsg)
    /\ stages' = Append(stages, "write")
    /\ UNCHANGED <<app, config, converted_files, files_to_convert, disk, dirs,
                   result, markdown, output_path>>
    /\ UNCHANGED rewriterVars
    /\ UNCHANGED serviceVars

\* converted_files[src] = dest on a dict kept in insertion order
RegistryPut(files, src, dest) ==
    IF \E i \in DOMAIN files : files[i].src = src
    THEN [i \in DOMAIN files |->
            IF files[i].src = src THEN [src |-> src, dest |-> dest] ELSE files[i]]
    ELSE Append(files, [src |-> src, dest |-> dest])

\* str(output_path) in cli.py, str(output_path.name) in convert_single_file
OutputText(path) == IF app = "cli" THEN PathStr(path) ELSE PathName(path)

\* the FileReport of a file that was written
SuccessReport(source, output, r, converter) ==
    FileReport(source, output, TRUE, r.warnings, r.errors, r.quality_score,
               converter)

\* config.converted_files[file_path] = output_path; the FileReport is
\* returned and added to the report
RegisterStage ==
    /\ pc = "register"
    /\ converted_files' = RegistryPut(converted_files, file_path, output_path)
    /\ report' = AddFileReport(report,
                    SuccessReport(SourceText(file_path), OutputText(output_path),
                                  result, ConverterFor(file_path)))
    /\ stages' = Append(stages, "register")
    /\ NextFile
    /\ UNCHANGED <<app, config, files_to_convert, disk, dirs, report_json,
                   result, markdown, output_path>>
    /\ UNCHANGED rewriterVars
    /\ UNCHANGED serviceVars

\* the "report" entry process_conversion stores in the job
JobReport(rep) ==
    [total_files |-> rep.total_files, successful |-> rep.successful,
     failed |-> rep.failed, average_quality_score |-> rep.average_quality_score,
     files |-> [i \in DOMAIN rep.files |->
                  [source_file |-> rep.files[i].source_file,
                   output_file |-> rep.files[i].output_file,
                   success |-> rep.files[i].success,
                   warnings |-> rep.files[i].warnings,
                   errors |-> rep.files[i].errors,
                   quality_score |-> rep.files[i].quality_score]]]

ReportText == <<"r","e","p","o","r","t">>

\* report.finalize(); report.to_json(report_path); the job is completed
Finalize ==
    /\ pc = "finalize"
    /\ report' = FinalizeReport(report)
    /\ report_json' = <<report'>>
    /\ dirs' = MkdirParents(dirs, PathParent(config.report_path))
    /\ disk' = WriteFile(disk, config.report_path, ReportText, <<>>)
    /\ job' = IF app = "web"
              THEN [job EXCEPT !.status = "completed", !.progress = 100,
                               !.report = <<JobReport(report')>>]
              ELSE job
    /\ pc' = "done"
    /\ UNCHANGED <<app, config, converted_files, files_to_convert, idx, result,
                   markdown, output_path, stages>>
    /\ UNCHANGED rewriterVars
    /\ UNCHANGED serviceVars

Next ==
    \/ Start
    \/ NoConverter
    \/ ExtractFails
    \/ Extract
    \/ HeadingsStage
    \/ WhitespaceStage
    \/ ImagesStage
    \/ ImagesStageRaises
    \/ LinksStage
    \/ FrontMatterStage
    \/ WriteStage
    \/ WriteStageRaises
    \/ RegisterStage
    \/ Finalize

Spec == Init /\ [][Next]_vars

(***************************************************************************)
(* LinkRewriter on its own: one call of _rewrite_url on a rewriter built   *)
(* for current_file over a registry of earlier conversions.                *)
(***************************************************************************)
MaxRegistry == 2

Item(src, dest) == [src |-> src, dest |-> dest]

\* items a run can have put in converted_files: the dest is below the
\* output directory
RegistryItems ==
    { Item(ADocx, AMd),
      Item(<<In, <<"b","a",".","d","o","c","x">>>>, <<Out, <<"b","a",".","m","d">>>>),
      Item(<<In, <<"s","u","b">>, <<"a",".","d","o","c","x">>>>,
           <<Out, <<"s","u","b">>, <<"a",".","m","d">>>>),
      Item(BDocx, <<Out, <<"b","-","2",".","m","d">>>>) }

\* the registries of at most MaxRegistry items, no source twice
Registries ==
    UNION { { f \in [1..n -> RegistryItems] :
                \A i, j \in 1..n : i # j => f[i].src # f[j].src }
            : n \in 0..MaxRegistry }

CurrentFiles ==
    { <<Out, <<"c",".","m","d">>>>, <<Out, <<"s","u","b">>, <<"c",".","m","d">>>> }

UrlDirs == { <<>>, <<".","/">>, <<"s","u","b","/">>, <<".",".","/">> }
UrlStems == { <<"a">>, <<"b","a">>, <<"b">>, <<"c">> }
UrlSuffixes == { <<".","d","o","c","x">>, <<".","D","O","C","X">>,
                 <<".","p","d","f">>, <<".","m","d">>, <<>> }
UrlFragments == { <<>>, <<"#","I","n","t","r","o">>, <<"#","x","#","y">>, <<"#">> }

\* the URLs tried: relative paths with and without fragment, an escaped
\* name, external URLs and in-page anchors
Urls ==
    { d \o st \o su \o fr :
        d \in UrlDirs, st \in UrlStems, su \in UrlSuffixes, fr \in UrlFragments }
    \cup { <<"h","t","t","p","s",":","/","/","e","/","a",".","d","o","c","x">>,
           <<"H","T","T","P",":","/","/","e","/","a",".","d","o","c","x">>,
           <<"m","a","i","l","t","o",":","a","@","b">>,
           <<"f","t","p",":","/","/","e","/","a",".","p","d","f">>,
           <<"h","t","t","p",":","/","/","[","e","/","a",".","d","o","c","x">>,
           <<"#","a","-","b"," ","C","_","1">>, <<"#"," ","A"," "," ","b">>,
           <<"#","M","y"," ","H","e","a","d","!">>,
           <<"b","%","2","0","a",".","d","o","c","x">>,
           <<"a","%","2","3","b",".","d","o","c","x">> }

InitRewriter ==
    /\ app = "rewriter"
    /\ config = ConversionConfig(<<In>>, <<Out>>, FALSE, TRUE)
    /\ converted_files \in Registries
    /\ current_file \in CurrentFiles
    /\ url \in Urls
    /\ new_url = <<>> /\ warnings = <<>>
    /\ arg = <<>> /\ ret = <<>>
    /\ pc = "call"
    /\ report = NewReport
    /\ RunIdle /\ ServiceIdle

\* new_url = self._rewrite_url(url); urlparse raises ValueError on a
\* network location with an unmatched bracket
RewriteUrlCall ==
    /\ pc = "call" /\ app = "rewriter"
    /\ IF UrlParseRaises(url)
       THEN /\ pc' = "raised"
            /\ UNCHANGED <<new_url, warnings>>
       ELSE /\ LET r == RewriteUrl(url, converted_files, current_file,
                                  config.output_dir)
               IN  /\ new_url' = r.url
                   /\ warnings' = warnings \o r.warnings
            /\ pc' = "returned"
    /\ UNCHANGED <<app, config, converted_files, files_to_convert, idx, disk,
                   dirs, report, report_json, job, result, markdown,
                   output_path, stages, url, current_file, arg, ret>>
    /\ UNCHANGED serviceVars

NextRewriter == RewriteUrlCall

SpecRewriter == InitRewriter /\ [][NextRewriter]_vars

(***************************************************************************)
(* ConversionReport on its own: any sequence of add_file_report.           *)
(***************************************************************************)
MaxReports == 3

ReportScores == {0, 35, 50, 100}

InitReport ==
    /\ app = "report"
    /\ config = ConversionConfig(<<In>>, <<Out>>, FALSE, TRUE)
    /\ converted_files = <<>>
    /\ report = NewReport
    /\ pc = "adding"
    /\ RunIdle /\ RewriterIdle /\ ServiceIdle

\* report.add_file_report(file_report) for any file report
AddFileReportCall ==
    /\ pc = "adding" /\ app = "report"
    /\ Len(report.files) < MaxReports
    /\ \E success \in BOOLEAN, score \in ReportScores :
          report' = AddFileReport(report,
                       FileReport(PathStr(ADocx),
                                  IF success THEN PathStr(AMd) ELSE <<>>,
                                  success, <<>>, <<>>, score, "DocxConverter"))
    /\ UNCHANGED <<app, config, converted_files, pc>>
    /\ UNCHANGED runVarsButPc
    /\ UNCHANGED rewriterVars
    /\ UNCHANGED serviceVars

NextReport == AddFileReportCall

SpecReport == InitReport /\ [][NextReport]_vars

(***************************************************************************)
(* The pure functions of the normalizer on their own: one call of one      *)
(* function on arguments drawn from bounded sets.  arg holds the name of   *)
(* the function and its arguments, ret what it returned.                   *)
(***************************************************************************)
MaxLines == 4
MaxNameLen == 4
MaxAnchorLen == 3
MaxCounter == 4

\* the sequences of at most n elements of S
Seqs(S, n) == UNION { [1..k -> S] : k \in 0..n }

\* the texts of one to n lines drawn from `lines`
Texts(lines, n) == { Join(ls, NL) : ls \in (Seqs(lines, n) \ {<<>>}) }

\* the anchors tried: with and without the leading "#", over letters of
\* both cases, a digit, the space, the hyphen and two other characters
AnchorArgs ==
    { [op |-> "normalize_anchor", anchor |-> lead \o text] :
        lead \in {<<"#">>, <<>>},
        text \in Seqs({"M", "y", " ", "-", "_", "1", "!"}, MaxAnchorLen) }

\* the lines of the texts given to normalize_headings: headings of the
\* levels 1, 2, 4 and 6, a heading whose title is a space, plain text and
\* seven hashes (no heading)
HeadingLines ==
    { <<"#"," ","A">>, <<"#"," ","B">>, <<"#","#"," ","C">>,
      <<"#","#","#","#"," ","D">>, <<"#","#","#","#","#","#"," ","E">>,
      <<"#"," "," ">>, <<"t">>, <<"#","#","#","#","#","#","#"," ","G">> }

HeadingArgs ==
    { [op |-> "normalize_headings", content |-> text] :
        text \in Texts(HeadingLines, MaxLines) }

\* the lines of the texts given to normalize_whitespace: blank lines (empty,
\* a space, a tab) and text with and without white space around it
WhitespaceLines ==
    { <<>>, <<" ">>, <<"\t">>, <<"a">>, <<"a"," ">>, <<" ","a","\t">> }

WhitespaceArgs ==
    { [op |-> "normalize_whitespace", content |-> text] :
        text \in Texts(WhitespaceLines, MaxLines + 1) }

\* the names given to sanitize_filename: letters of both cases, a digit,
\* the hyphen, the underscore, the space, the dot, an unsafe character and
\* the path separator
NameChars == {"a", "B", "1", "-", "_", " ", ".", "!", "/"}

SanitizeArgs ==
    { [op |-> "sanitize_filename", filename |-> name, lowercase |-> lowercase] :
        name \in Seqs(NameChars, MaxNameLen), lowercase \in BOOLEAN }

\* the directories get_unique_filename is tried on: out/ with any of a,
\* a.md, b.md and their suffixed names up to MaxCounter as files, and
\* a-3.md a directory or not
UniqueArgs ==
    LET A == <<"a">>
        Md(stem) == stem \o MdSuffix
        Numbered(stem, k) == stem \o <<"-">> \o IntToStr(k)
        names == {A, Md(A)}
                 \cup { Numbered(A, k) : k \in FirstCounter..MaxCounter }
                 \cup { Md(Numbered(A, k)) : k \in FirstCounter..MaxCounter }
    IN  { [op |-> "get_unique_filename",
           files |-> [path \in { <<Out, n>> : n \in present } |->
                        DiskFile(OldText, <<>>)],
           directories |-> {<<Out>>} \cup made,
           base_path |-> <<Out>>,
           desired_name |-> desired] :
          present \in SUBSET names,
          made \in { {}, {<<Out, Md(Numbered(A, FirstCounter + 1))>>} },
          desired \in {A, Md(A), Md(<<"b">>)} }

\* the calls of save_images tried for the document a.docx: no image, one,
\* or two whose names sanitize alike; the asset directory there or not,
\* with p.png and p-2.png in it or not
SaveImagesArgs ==
    LET Png == <<"p",".","p","n","g">>
        image_dir == ImageDir(<<Out, Assets>>, <<"a",".","d","o","c","x">>)
        pictures == {<<>>,
                     <<[name |-> Png, bytes |-> <<"P","N","G">>]>>,
                     <<[name |-> Png, bytes |-> <<"P","N","G">>],
                       [name |-> <<"P",".","p","n","g">>, bytes |-> <<"X">>]>>}
    IN  { [op |-> "save_images",
           images |-> images,
           files |-> [path \in present |-> DiskFile(OldText, <<>>)],
           directories |-> IF present \subseteq {AMd} THEN {<<Out>>}
                           ELSE MkdirParents({<<Out>>}, image_dir),
           document_name |-> <<"a",".","d","o","c","x">>,
           markdown_file |-> AMd] :
          images \in pictures,
          present \in SUBSET {AMd, PathJoin(image_dir, Png),
                              PathJoin(image_dir, <<"p","-","2",".","p","n","g">>)} }

\* the calls of add_front_matter tried: contents that are empty, start
\* with a heading or start with a blank line; values with YAML characters;
\* up to two extra keys in either order
FrontMatterArgs ==
    LET contents == {<<>>, <<"#"," ","T",NL>>, <<NL,"#"," ","T",NL>>, <<"-","-","-",NL>>}
        values == {<<"t">>, <<"a",":"," ","#","b">>}
        k == [key |-> <<"k">>, value |-> <<"v">>]
        j == [key |-> <<"j">>, value |-> <<"w",":"," ","-">>]
    IN  { [op |-> "add_front_matter",
           content |-> content,
           title |-> title,
           source |-> source,
           converted_at |-> NowText,
           extra |-> extra] :
          content \in contents,
          title \in values,
          source \in values \cup {<<"i","n","/","a",".","d","o","c","x">>},
          extra \in {<<>>, <<k>>, <<k, j>>, <<j, k>>} }

InitNormalizer ==
    /\ app = "normalizer"
    /\ config = ConversionConfig(<<In>>, <<Out>>, FALSE, TRUE)
    /\ converted_files = <<>>
    /\ report = NewReport
    /\ pc = "call"
    /\ RunIdle /\ ServiceIdle
    /\ url = <<>> /\ new_url = <<>> /\ current_file = <<>> /\ warnings = <<>>
    /\ \/ arg \in AnchorArgs
       \/ arg \in HeadingArgs
       \/ arg \in WhitespaceArgs
       \/ arg \in SanitizeArgs
       \/ arg \in UniqueArgs
       \/ arg \in SaveImagesArgs
       \/ arg \in FrontMatterArgs
    /\ ret = <<>>

\* the function `op` is called
Called(op) == app = "normalizer" /\ pc = "call" /\ arg.op = op

\* the function `op` has returned
Returned(op) == app = "normalizer" /\ pc = "returned" /\ arg.op = op

\* the call returns `value` and touches nothing else
Return(value) ==
    /\ ret' = value
    /\ pc' = "returned"
    /\ UNCHANGED <<app, config, converted_files, report, arg>>
    /\ UNCHANGED runVarsButPc
    /\ UNCHANGED <<url, new_url, current_file, warnings>>
    /\ UNCHANGED serviceVars

\* self._normalize_anchor(anchor)
NormalizeAnchorCall ==
    /\ Called("normalize_anchor")
    /\ Return(NormalizeAnchor(arg.anchor))

\* normalizer.normalize_headings(content)
NormalizeHeadingsCall ==
    /\ Called("normalize_headings")
    /\ Return(NormalizeHeadings(arg.content))

\* normalizer.normalize_whitespace(content)
NormalizeWhitespaceCall ==
    /\ Called("normalize_whitespace")
    /\ Return(NormalizeWhitespace(arg.content))

\* sanitize_filename(filename, lowercase)
SanitizeFilenameCall ==
    /\ Called("sanitize_filename")
    /\ Return(SanitizeFilename(arg.filename, arg.lowercase))

\* get_unique_filename(base_path, desired_name)
GetUniqueFilenameCall ==
    /\ Called("get_unique_filename")
    /\ Return(GetUniqueFilename(arg.files, arg.directories, arg.base_path,
                                arg.desired_name))

\* ImageHandler(config, document_name).save_images(images, markdown_file)
SaveImagesCall ==
    /\ Called("save_images")
    /\ Return(SaveImages(arg.images, arg.files, arg.directories,
                         ImageDir(config.assets_dir, arg.document_name),
                         arg.markdown_file, config.output_dir,
                         arg.document_name))

\* MarkdownNormalizer.add_front_matter(content, title, source, converted_at,
\* **extra)
AddFrontMatterCall ==
    /\ Called("add_front_matter")
    /\ Return(AddFrontMatter(arg.content, arg.title, arg.source,
                             arg.converted_at, arg.extra))

NextNormalizer ==
    \/ AddFrontMatterCall
    \/ SanitizeFilenameCall
    \/ GetUniqueFilenameCall
    \/ SaveImagesCall
    \/ NormalizeAnchorCall
    \/ NormalizeHeadingsCall
    \/ NormalizeWhitespaceCall

SpecNormalizer == InitNormalizer /\ [][NextNormalizer]_vars

(***************************************************************************)
(* The job service: the application of web/app.py with its background      *)
(* tasks, and the serverless application of api/index.py.  A coroutine     *)
(* runs without interruption from one await to the next; the file          *)
(* conversion that process_conversion hands to a thread runs beside the    *)
(* request handlers.                                                       *)
(***************************************************************************)
MaxDownloads == 1

\* the job ids, in the order uuid4 gives them out
JobIds == {1, 2}

\* the uploads tried, by the names of their files: none, one document, a
\* file no converter accepts, and b.docx with a.docx, which links to it.
\* The text of an upload is that of the source of the same name
Uploads ==
    { <<>>, <<PathName(ADocx)>>, <<PathName(BDocx)>>, <<PathName(CTxt)>>,
      <<PathName(BDocx), PathName(ADocx)>> }

\* tempfile.mkdtemp(prefix=f"doc2mkdocs_{job_id}_")
TempDir(job_id) == << <<"t","m","p">> \o IntToStr(job_id) >>
InputName == <<"i","n","p","u","t">>
OutputName == <<"o","u","t","p","u","t">>
UploadsName == <<"u","p","l","o","a","d","s">>
ZipName == <<"r","e","s","u","l","t",".","z","i","p">>

\* shutil.rmtree(temp_dir): the files and the directories that are left
RmtreeFiles(files, temp_dir) ==
    [path \in { q \in DOMAIN files : ~IsRelativeTo(q, temp_dir) } |-> files[path]]
RmtreeDirs(directories, temp_dir) ==
    { d \in directories : ~IsRelativeTo(d, temp_dir) }

\* files with the uploads `names` saved in `dir`
RECURSIVE SaveUploads(_, _, _)
SaveUploads(files, dir, names) ==
    IF names = <<>> THEN files
    ELSE SaveUploads(WriteFile(files, PathJoin(dir, Head(names)), DocText(<<In, Head(names)>>), <<>>),
                     dir, Tail(names))

\* conversion_jobs[job_id] = {...} of upload_files
NewJob(status, temp_dir, input_dir, output_dir, files) ==
    [status |-> status, temp_dir |-> temp_dir, input_dir |-> input_dir,
     output_dir |-> output_dir, files |-> files, progress |-> 0,
     report |-> <<>>, error |-> <<>>]

\* the locals of process_conversion(job_id) before it has run
NewTask ==
    [pc |-> "scheduled", job |-> <<>>, output_dir |-> <<>>,
     converted_files |-> <<>>, report |-> NewReport, idx |-> 0,
     result |-> NewResult, file_report |-> <<>>, raised |-> FALSE]

\* the config process_conversion builds
JobConfig(task) == ConversionConfig(task.job.input_dir, task.output_dir, TRUE, TRUE)

\* one dict for all the tasks: the entries of every job, in the order of
\* the job ids
RECURSIVE SharedUpTo(_, _)
SharedUpTo(all_tasks, n) ==
    IF n = 0 THEN <<>>
    ELSE SharedUpTo(all_tasks, n - 1)
           \o (IF n \in DOMAIN all_tasks THEN all_tasks[n].converted_files ELSE <<>>)
SharedRegistry(all_tasks, job_id) == SharedUpTo(all_tasks, Cardinality(JobIds))

\* config.converted_files as the task of job_id sees it: the dict of the
\* config built by that task
TaskRegistry(all_tasks, job_id) == all_tasks[job_id].converted_files

\* convert_single_file from "Add front matter" on: the output is written and
\* registered.  The disk and the registry afterwards, and the FileReport
\* returned
ConvertSingleFileWrite(source_path, r, cfg, registry, saved, out_path, n_warnings, l) ==
    LET markdown3 == IF cfg.front_matter
                     THEN AddFrontMatter(l.content,
                              FrontMatterTitle(source_path, r.metadata),
                              PathName(source_path), NowText,
                              SelectSeq(r.metadata, NotTitle))
                     ELSE l.content
        made == MkdirParents(saved.dirs, PathParent(out_path))
        path == WritePath(saved.files, made, out_path, cfg.overwrite)
    IN  [files |-> WriteFile(saved.files, path, markdown3, source_path),
         dirs |-> made,
         registry |-> RegistryPut(registry, source_path, path),
         file_report |-> FileReport(PathName(source_path), PathName(path), TRUE,
                                    r.warnings \o n_warnings \o l.warnings,
                                    r.errors, r.quality_score,
                                    ConverterFor(source_path))]

\* convert_single_file from the rewriting of the image paths on, with the
\* normalized headings `n` and the images `saved`
ConvertSingleFileRewrite(source_path, r, cfg, registry, n, saved, out_path) ==
    ConvertSingleFileWrite(source_path, r, cfg, registry, saved, out_path, n.warnings,
        RewriteLinks(RewriteImagePaths(NormalizeWhitespace(n.content), saved.mapping),
                     registry, out_path, cfg.output_dir))

\* convert_single_file from "Normalize markdown" on, for a result whose
\* extraction succeeded
ConvertSingleFile(source_path, r, cfg, registry, files, directories) ==
    ConvertSingleFileRewrite(source_path, r, cfg, registry,
        NormalizeHeadings(r.markdown_content),
        SaveImages(r.images, files, directories,
                   ImageDir(cfg.assets_dir, PathName(source_path)),
                   WebOutputPath(source_path, cfg), cfg.output_dir, source_path),
        WebOutputPath(source_path, cfg))

\* the loop of process_conversion from the file at task.idx up to the next
\* await: the files without converter get their failed report; the task
\* stops at the file it hands to the thread, or behind the last file
RECURSIVE ProcessLoop(_)
ProcessLoop(task) ==
    IF task.idx >= Len(task.job.files) THEN [task EXCEPT !.pc = "finalize"]
    ELSE LET source_path == task.job.files[task.idx + 1]
             progressed == [task EXCEPT !.job.progress =
                               (task.idx * 100) \div Len(task.job.files)]
         IN  IF ConverterFor(source_path) = "None"
             THEN ProcessLoop([progressed EXCEPT
                     !.report = AddFileReport(@,
                         FileReport(PathStr(source_path), <<>>, FALSE, <<>>,
                                    <<Warning(NoConverterMsg, PathSuffix(source_path))>>,
                                    FullScore, "None")),
                     !.idx = @ + 1])
             ELSE [progressed EXCEPT !.pc = "extract"]

pipelineVars == <<config, converted_files, files_to_convert, idx, pc, report,
                  report_json, job, result, markdown, output_path, stages>>

\* what the job service leaves alone
ServiceFrame ==
    /\ UNCHANGED app
    /\ UNCHANGED pipelineVars
    /\ UNCHANGED rewriterVars

\* the application right after start-up: no job, nothing on the disk
InitJobs ==
    /\ app \in {"service", "serverless"}
    /\ config = ConversionConfig(<<In>>, <<Out>>, TRUE, TRUE)
    /\ converted_files = <<>>
    /\ report = NewReport
    /\ pc = "serving"
    /\ RunIdle /\ RewriterIdle
    /\ job_ids = {} /\ conversion_jobs = <<>> /\ tasks = <<>>
    /\ cleanup_tasks = [job_id \in JobIds |-> 0]
    /\ response = <<>>

\* the response to a request: JSONResponse, FileResponse or HTTPException
Response(request, job_id, status_code, body) ==
    [request |-> request, job_id |-> job_id, status_code |-> status_code,
     body |-> body]

\* the dict without the key: del conversion_jobs[job_id]
Without(jobs, job_id) == [k \in (DOMAIN jobs) \ {job_id} |-> jobs[k]]

\* POST /api/upload of web/app.py.  `large` is 1 when the first upload is
\* above MAX_FILE_SIZE: nothing is saved then
UploadFiles ==
    /\ app = "service"
    /\ job_ids # JobIds
    /\ \E names \in Uploads, large \in 0..1 :
          /\ large <= Len(names)
          /\ LET job_id == Cardinality(job_ids) + 1
                 temp_dir == TempDir(job_id)
                 input_dir == PathJoin(temp_dir, InputName)
                 output_dir == PathJoin(temp_dir, OutputName)
                 saved == IF large = 0 THEN names ELSE SubSeq(names, 1, large - 1)
                 uploaded_files == [i \in DOMAIN names |-> PathJoin(input_dir, names[i])]
             IN  /\ job_ids' = job_ids \cup {job_id}
                 /\ dirs' = dirs \cup {temp_dir, input_dir, output_dir}
                 /\ disk' = SaveUploads(disk, input_dir, saved)
                 /\ IF large = 0
                    THEN /\ conversion_jobs' = conversion_jobs @@
                               (job_id :> NewJob("processing", temp_dir, input_dir,
                                                 output_dir, uploaded_files))
                         /\ tasks' = tasks @@ (job_id :> NewTask)
                         /\ response' = Response("upload", job_id, 200, "processing")
                    ELSE /\ UNCHANGED <<conversion_jobs, tasks>>
                         /\ response' = Response("upload", 0, 413, "exceeds maximum size")
    /\ UNCHANGED cleanup_tasks
    /\ ServiceFrame

\* GET /api/status/{job_id} of web/app.py
GetStatus ==
    /\ app = "service"
    /\ \E job_id \in JobIds :
          response' =
             IF job_id \notin DOMAIN conversion_jobs
             THEN Response("status", job_id, 404, "Job not found")
             ELSE Response("status", job_id, 200,
                           [status |-> conversion_jobs[job_id].status,
                            progress |-> conversion_jobs[job_id].progress,
                            file_count |-> Len(conversion_jobs[job_id].files),
                            report |-> conversion_jobs[job_id].report,
                            error |-> conversion_jobs[job_id].error])
    /\ UNCHANGED <<job_ids, conversion_jobs, tasks, cleanup_tasks, disk, dirs>>
    /\ ServiceFrame

\* shutil.make_archive(..., "zip", output_dir): the files below output_dir
Archive(files, output_dir) ==
    LET below == { path \in DOMAIN files : IsRelativeTo(path, output_dir) }
    IN  { <<RelativeTo(path, output_dir), files[path].text>> : path \in below }

\* download_result without its check of the status: the archive of whatever
\* the output directory holds
DownloadResultUnfinished ==
    /\ app = "service"
    /\ \E job_id \in JobIds :
          IF job_id \notin DOMAIN conversion_jobs
          THEN /\ response' = Response("download", job_id, 404, "Job not found")
               /\ UNCHANGED <<disk, cleanup_tasks>>
          ELSE LET this == conversion_jobs[job_id]
                   zip_path == PathJoin(this.temp_dir, ZipName)
                   archive == Archive(disk, this.output_dir)
               IN  /\ cleanup_tasks[job_id] < MaxDownloads
                   /\ this.output_dir \in dirs
                   /\ disk' = WriteFile(disk, zip_path, archive, <<>>)
                   /\ cleanup_tasks' = [cleanup_tasks EXCEPT ![job_id] = @ + 1]
                   /\ response' = Response("download", job_id, 200, archive)
    /\ UNCHANGED <<job_ids, conversion_jobs, tasks, dirs>>
    /\ ServiceFrame

\* GET /api/download/{job_id}
DownloadResult ==
    /\ app = "service"
    /\ \E job_id \in JobIds :
          IF job_id \notin DOMAIN conversion_jobs
          THEN /\ response' = Response("download", job_id, 404, "Job not found")
               /\ UNCHANGED <<disk, cleanup_tasks>>
          ELSE IF conversion_jobs[job_id].status # "completed"
          THEN /\ response' = Response("download", job_id, 400, "Conversion not completed")
               /\ UNCHANGED <<disk, cleanup_tasks>>
          ELSE LET this == conversion_jobs[job_id]
                   zip_path == PathJoin(this.temp_dir, ZipName)
                   archive == Archive(disk, this.output_dir)
               IN  /\ cleanup_tasks[job_id] < MaxDownloads
                   /\ IF this.output_dir \in dirs
                      THEN /\ disk' = WriteFile(disk, zip_path, archive, <<>>)
                           /\ cleanup_tasks' = [cleanup_tasks EXCEPT ![job_id] = @ + 1]
                           /\ response' = Response("download", job_id, 200, archive)
                      ELSE /\ response' = Response("download", job_id, 500, "Internal Server Error")
                           /\ UNCHANGED <<disk, cleanup_tasks>>
    /\ UNCHANGED <<job_ids, conversion_jobs, tasks, dirs>>
    /\ ServiceFrame

\* cleanup_job(job_id, delay) once its sleep is over.  rmtree may fail; the
\* failure is logged and the entry is deleted all the same
CleanupJob(job_id, rmtree_ok) ==
    IF job_id \in DOMAIN conversion_jobs
    THEN LET temp_dir == conversion_jobs[job_id].temp_dir
         IN  /\ IF temp_dir \in dirs /\ rmtree_ok
                THEN /\ disk' = RmtreeFiles(disk, temp_dir)
                     /\ dirs' = RmtreeDirs(dirs, temp_dir)
                ELSE UNCHANGED <<disk, dirs>>
             /\ conversion_jobs' = Without(conversion_jobs, job_id)
    ELSE UNCHANGED <<disk, dirs, conversion_jobs>>

\* DELETE /api/job/{job_id} of web/app.py: cleanup_job(job_id, delay=0) runs
\* within the handler
DeleteJob ==
    /\ app = "service"
    /\ \E job_id \in JobIds, rmtree_ok \in BOOLEAN :
          IF job_id \notin DOMAIN conversion_jobs
          THEN /\ response' = Response("delete", job_id, 404, "Job not found")
               /\ UNCHANGED <<disk, dirs, conversion_jobs>>
          ELSE /\ CleanupJob(job_id, rmtree_ok)
               /\ response' = Response("delete", job_id, 200, "Job deleted successfully")
    /\ UNCHANGED <<job_ids, tasks, cleanup_tasks>>
    /\ ServiceFrame

\* a cleanup_job(job_id, delay=60) task scheduled by a download wakes up
CleanupAfterDelay(job_id) ==
    /\ app = "service"
    /\ cleanup_tasks[job_id] > 0
    /\ \E rmtree_ok \in BOOLEAN : CleanupJob(job_id, rmtree_ok)
    /\ cleanup_tasks' = [cleanup_tasks EXCEPT ![job_id] = @ - 1]
    /\ UNCHANGED <<job_ids, tasks, response>>
    /\ ServiceFrame

\* job["..."] = ... in process_conversion: `job` is the dict of the table
\* as long as the table holds it
StoreJob(job_id, this) ==
    conversion_jobs' = IF job_id \in DOMAIN conversion_jobs
                       THEN [conversion_jobs EXCEPT ![job_id] = this]
                       ELSE conversion_jobs

JobErrorMsg == "OSError"

\* the except branch of process_conversion
FailJob(task) ==
    [task EXCEPT !.pc = "done", !.job.status = "failed",
                 !.job.error = <<JobErrorMsg>>]

\* process_conversion from the file at task.idx to its next await or to
\* its end: the loop, then report.finalize(), report.to_json(report_path)
\* and the job completed
Continue(job_id, task, to_json_raises) ==
    \E t \in {ProcessLoop(task)} :
    \E finalized \in {FinalizeReport(t.report)} :
    LET report_path == PathJoin(t.output_dir, ReportName)
        completed == [t EXCEPT !.pc = "done", !.report = finalized,
                               !.job.status = "completed",
                               !.job.progress = 100,
                               !.job.report = <<JobReport(finalized)>>]
        failed == FailJob([t EXCEPT !.report = finalized])
    IN  IF t.pc = "extract"
        THEN /\ tasks' = [tasks EXCEPT ![job_id] = t]
             /\ StoreJob(job_id, t.job)
             /\ UNCHANGED <<disk, dirs>>
        ELSE IF to_json_raises
        THEN /\ tasks' = [tasks EXCEPT ![job_id] = failed]
             /\ StoreJob(job_id, failed.job)
             /\ UNCHANGED <<disk, dirs>>
        ELSE /\ tasks' = [tasks EXCEPT ![job_id] = completed]
             /\ StoreJob(job_id, completed.job)
             /\ dirs' = MkdirParents(dirs, PathParent(report_path))
             /\ disk' = WriteFile(disk, report_path, ReportText, <<>>)

\* the task process_conversion(job_id) starts.  When the job was deleted
\* already, conversion_jobs[job_id] raises KeyError and the except branch
\* fails on its unbound `job`: the task ends with that exception
ProcessStart(job_id) ==
    /\ job_id \in DOMAIN tasks
    /\ tasks[job_id].pc = "scheduled"
    /\ IF job_id \notin DOMAIN conversion_jobs
       THEN /\ tasks' = [tasks EXCEPT ![job_id].pc = "crashed"]
            /\ UNCHANGED <<disk, dirs, conversion_jobs>>
       ELSE \E to_json_raises \in BOOLEAN :
            \E task \in {[tasks[job_id] EXCEPT
                            !.job = conversion_jobs[job_id],
                            !.output_dir = conversion_jobs[job_id].output_dir]} :
               Continue(job_id, task, to_json_raises)
    /\ UNCHANGED <<job_ids, cleanup_tasks, response>>
    /\ ServiceFrame

\* in the thread: result = converter.convert(source_path); a failed result
\* returns the failed FileReport.  The converter fails on a file that is
\* not there.  The warnings of the extraction play no part here: none
ThreadExtract(job_id) ==
    /\ job_id \in DOMAIN tasks
    /\ tasks[job_id].pc = "extract"
    /\ LET task == tasks[job_id]
           source_path == task.job.files[task.idx + 1]
       IN  \E ok \in BOOLEAN :
              /\ ok => source_path \in DOMAIN disk
              /\ LET r == ConverterConvert(<<In, PathName(source_path)>>, ok, 0)
                 IN  tasks' = [tasks EXCEPT ![job_id] =
                        IF ok THEN [task EXCEPT !.pc = "write", !.result = r]
                        ELSE [task EXCEPT
                                !.pc = "returned", !.result = r,
                                !.file_report =
                                    FailedReport(PathStr(source_path), r,
                                                 ConverterFor(source_path))]]
    /\ UNCHANGED <<job_ids, conversion_jobs, cleanup_tasks, response, disk, dirs>>
    /\ ServiceFrame

\* in the thread: the rest of convert_single_file, which returns the
\* FileReport or raises (an image or the output cannot be written)
ThreadWrite(job_id) ==
    /\ job_id \in DOMAIN tasks
    /\ tasks[job_id].pc = "write"
    /\ \/ /\ tasks' = [tasks EXCEPT ![job_id].pc = "returned",
                                     ![job_id].raised = TRUE]
          /\ UNCHANGED <<disk, dirs>>
       \/ \E task \in {tasks[job_id]} :
          \E done \in {ConvertSingleFile(task.job.files[task.idx + 1], task.result,
                                         JobConfig(task), TaskRegistry(tasks, job_id),
                                         disk, dirs)} :
             /\ tasks' = [tasks EXCEPT
                            ![job_id].pc = "returned",
                            ![job_id].converted_files = done.registry,
                            ![job_id].file_report = done.file_report]
             /\ disk' = done.files
             /\ dirs' = done.dirs
    /\ UNCHANGED <<job_ids, conversion_jobs, cleanup_tasks, response>>
    /\ ServiceFrame

\* process_conversion resumes behind `await asyncio.to_thread(...)`: the
\* FileReport is added and the loop goes on, or the exception of the thread
\* is caught
ProcessResume(job_id) ==
    /\ job_id \in DOMAIN tasks
    /\ tasks[job_id].pc = "returned"
    /\ IF tasks[job_id].raised
       THEN /\ tasks' = [tasks EXCEPT ![job_id] = FailJob(tasks[job_id])]
            /\ StoreJob(job_id, FailJob(tasks[job_id]).job)
            /\ UNCHANGED <<disk, dirs>>
       ELSE \E to_json_raises \in BOOLEAN :
            \E task \in {[tasks[job_id] EXCEPT
                            !.report = AddFileReport(@, tasks[job_id].file_report),
                            !.idx = @ + 1]} :
               Continue(job_id, task, to_json_raises)
    /\ UNCHANGED <<job_ids, cleanup_tasks, response>>
    /\ ServiceFrame

\* POST /api/upload of api/index.py: the files are kept, nothing converts
ServerlessUploadFiles ==
    /\ app = "serverless"
    /\ job_ids # JobIds
    /\ \E names \in Uploads, large \in 0..1 :
          /\ large <= Len(names)
          /\ LET job_id == Cardinality(job_ids) + 1
                 temp_dir == TempDir(job_id)
                 upload_dir == PathJoin(temp_dir, UploadsName)
                 uploaded_files == [i \in DOMAIN names |-> PathJoin(upload_dir, names[i])]
             IN  /\ job_ids' = job_ids \cup {job_id}
                 /\ IF large = 0
                    THEN /\ dirs' = dirs \cup {temp_dir, upload_dir}
                         /\ disk' = SaveUploads(disk, upload_dir, names)
                         /\ conversion_jobs' = conversion_jobs @@
                               (job_id :> NewJob("pending", temp_dir, upload_dir,
                                                 <<>>, uploaded_files))
                         /\ response' = Response("upload", job_id, 200, "uploaded")
                    ELSE /\ UNCHANGED <<dirs, disk, conversion_jobs>>
                         /\ response' = Response("upload", 0, 400, "exceeds maximum size")
    /\ UNCHANGED <<tasks, cleanup_tasks>>
    /\ ServiceFrame

\* GET /api/status/{job_id} of api/index.py
ServerlessGetStatus ==
    /\ app = "serverless"
    /\ \E job_id \in JobIds :
          response' =
             IF job_id \notin DOMAIN conversion_jobs
             THEN Response("status", job_id, 404, "Job not found")
             ELSE Response("status", job_id, 200,
                           [status |-> conversion_jobs[job_id].status,
                            progress |-> conversion_jobs[job_id].progress,
                            files_count |-> Len(conversion_jobs[job_id].files)])
    /\ UNCHANGED <<job_ids, conversion_jobs, tasks, cleanup_tasks, disk, dirs>>
    /\ ServiceFrame

\* DELETE /api/job/{job_id} of api/index.py: rmtree with ignore_errors
ServerlessDeleteJob ==
    /\ app = "serverless"
    /\ \E job_id \in JobIds, rmtree_ok \in BOOLEAN :
          IF job_id \notin DOMAIN conversion_jobs
          THEN /\ response' = Response("delete", job_id, 404, "Job not found")
               /\ UNCHANGED <<disk, dirs, conversion_jobs>>
          ELSE /\ CleanupJob(job_id, rmtree_ok)
               /\ response' = Response("delete", job_id, 200, "Job deleted successfully")
    /\ UNCHANGED <<job_ids, tasks, cleanup_tasks>>
    /\ ServiceFrame

NextJobs ==
    \/ UploadFiles
    \/ GetStatus
    \/ DownloadResult
    \/ DeleteJob
    \/ \E job_id \in JobIds : CleanupAfterDelay(job_id)
    \/ \E job_id \in JobIds : ProcessStart(job_id)
    \/ \E job_id \in JobIds : ThreadExtract(job_id)
    \/ \E job_id \in JobIds : ThreadWrite(job_id)
    \/ \E job_id \in JobIds : ProcessResume(job_id)
    \/ ServerlessUploadFiles
    \/ ServerlessGetStatus
    \/ ServerlessDeleteJob

SpecJobs == InitJobs /\ [][NextJobs]_vars

\* the event loop runs every task that is ready, the thread pool runs the
\* conversion it was given, and a sleep ends
FairSpecJobs ==
    /\ SpecJobs
    /\ \A job_id \in JobIds :
          /\ WF_vars(ProcessStart(job_id))
          /\ WF_vars(ThreadExtract(job_id))
          /\ WF_vars(ThreadWrite(job_id))
          /\ WF_vars(ProcessResume(job_id))
          /\ WF_vars(CleanupAfterDelay(job_id))

(***************************************************************************)
(* Properties of the run.                                                  *)
(***************************************************************************)
RunOver == app \in {"cli", "web"} /\ pc \in {"done", "raised"}

\* the file report of the source at place i of the batch, if there is one
ReportsOf(i) ==
    { k \in DOMAIN report.files :
        report.files[k].source_file = SourceText(files_to_convert[i])
        \/ report.files[k].source_file = PathStr(files_to_convert[i]) }

\* the unresolved-link warnings of a file report
UnresolvedOf(file_report) ==
    { k \in DOMAIN file_report.warnings :
        file_report.warnings[k].msg = UnresolvedMsg }

\* whether the text holds the piece somewhere
Contains(text, piece) ==
    \E k \in 0..(Len(text) - Len(piece)) :
        SubSeq(text, k + 1, k + Len(piece)) = piece

\* C1: in a batch run, when the links of a document are rewritten the
\* registry holds every document of the batch that converts successfully:
\* at the end of the run no file report carries an "Unresolved document
\* link" warning for a link to a source of the batch that was converted,
\* and with a.docx (which links to b.docx#Intro) and b.docx both converted,
\* the output of a.docx links to the output of b.docx.
C1_BatchLinksResolved ==
    RunOver =>
        /\ \A f \in DOMAIN report.files : \A k \in UnresolvedOf(report.files[f]) :
              ~ \E g \in DOMAIN report.files :
                    /\ report.files[g].success
                    /\ PathName(PathOf(report.files[g].source_file))
                         = PathName(UrlPath(report.files[f].warnings[k].arg))
        /\ \A a, b \in DOMAIN converted_files :
              (converted_files[a].src = ADocx /\ converted_files[b].src = BDocx)
              => Contains(disk[converted_files[a].dest].text,
                          <<"(">> \o PathName(converted_files[b].dest)
                             \o <<"#","I","n","t","r","o",")">>)

\* C2: a failure raised for one document after its extraction becomes a
\* failed file report of that document only: the run does not end by the
\* exception, the job does not fail, and every document of the batch gets
\* its file report.
C2_FailureStaysInFileReport ==
    /\ pc # "raised"
    /\ job.status # "failed"
    /\ (RunOver /\ files_to_convert # <<>>) =>
          \A i \in DOMAIN files_to_convert : ReportsOf(i) # {}

\* C3: every run ends by producing a conversion report that holds exactly
\* one file report for each source document given to the run.
C3_ReportForEveryDocument ==
    (RunOver /\ files_to_convert # <<>>) =>
        /\ report_json # <<>>
        /\ Len(report_json[1].files) = Len(files_to_convert)
        /\ \A i \in DOMAIN files_to_convert : Cardinality(ReportsOf(i)) = 1

StagePcs == {"headings", "whitespace", "images", "links", "front_matter",
             "write", "register"}

\* C4: when the extraction reports success = false, the document ends in a
\* failed file report (success false, no output file) that carries the
\* errors, warnings and quality score of the extraction; no later stage
\* runs for it, nothing is written and the registry is left as it was.
C4_ExtractionFailureShortCircuits ==
    /\ [](pc \in StagePcs => result.success)
    /\ [][ (/\ app \in {"cli", "web"} /\ pc = "convert"
            /\ ConverterFor(file_path) # "None"
            /\ ~result'.success)
           => /\ Len(report'.files) = Len(report.files) + 1
              /\ LET fr == report'.files[Len(report'.files)]
                 IN  /\ ~fr.success
                     /\ fr.output_file = <<>>
                     /\ fr.source_file = PathStr(file_path)
                     /\ fr.errors = result'.errors /\ fr.errors # <<>>
                     /\ fr.warnings = result'.warnings
                     /\ fr.quality_score = result'.quality_score
              /\ report'.failed = report.failed + 1
              /\ stages' = <<"extract">>
              /\ pc' \in {"convert", "finalize"}
              /\ disk' = disk /\ dirs' = dirs
              /\ converted_files' = converted_files ]_vars

\* C4 happens: a run ended with the failed report of an extraction that
\* had given a warning before it failed
C4_Witness ==
    /\ RunOver
    /\ \E k \in DOMAIN report.files :
          /\ ~report.files[k].success
          /\ report.files[k].converter_used # "None"
          /\ Len(report.files[k].warnings) = 1
          /\ report.files[k].quality_score = FullScore - WarningPenalty - ErrorPenalty

\* parent / "<stem>-<k><suffix>"
Suffixed(path, k) ==
    PathJoin(PathParent(path),
             PathStem(path) \o <<"-">> \o IntToStr(k) \o PathSuffix(path))

\* C5: with overwrite disabled, a document whose proposed output path
\* exists is written to a fresh path <stem>-<k>.md, the content of every
\* file that existed stays what it was, and the entry put in the registry
\* is the path that was written.
C5_NoOverwriteWhenDisabled ==
    [][ (app \in {"cli", "web"} /\ ~config.overwrite)
        => /\ (pc = "write" /\ pc' = "register")
              => /\ \A q \in DOMAIN disk : q \in DOMAIN disk' /\ disk'[q] = disk[q]
                 /\ output_path' \notin DOMAIN disk
                 /\ disk'[output_path'] = DiskFile(markdown, file_path)
                 /\ IF output_path \in DOMAIN disk
                    THEN \E k \in 2..(Cardinality(DOMAIN disk) + 2) :
                            output_path' = Suffixed(output_path, k)
                    ELSE output_path' = output_path
           /\ (pc = "register" /\ pc' # "register")
              => /\ \E i \in DOMAIN converted_files' :
                       converted_files'[i] = Item(file_path, output_path)
                 /\ disk[output_path].by = file_path ]_vars

\* C5 happens: with overwrite disabled a document was registered under a
\* suffixed path while the file at the proposed path keeps its old content
C5_Witness ==
    /\ app = "cli" /\ ~config.overwrite
    /\ \E i \in DOMAIN converted_files :
          /\ converted_files[i].dest = Suffixed(AMd, 2)
          /\ disk[converted_files[i].dest].by = converted_files[i].src
    /\ AMd \in DOMAIN disk /\ disk[AMd].text = OldText

\* C6: within one run no two source documents end with the same output
\* path and no document's output is replaced by that of a later document;
\* stated for the web job.
C6_OutputPathsUnique ==
    app = "web" =>
        /\ \A i, j \in DOMAIN converted_files :
              i # j => converted_files[i].dest # converted_files[j].dest
        /\ \A i \in DOMAIN converted_files :
              disk[converted_files[i].dest].by = converted_files[i].src

\* the score add_warning and add_error leave after that many of each
ScoreFor(n_warnings, n_errors) ==
    Max(0, FullScore - WarningPenalty * n_warnings - ErrorPenalty * n_errors)

\* C7: the quality score of a file report is 1.0 less 0.05 for every
\* warning and 0.2 for every error listed in the report, never below 0;
\* stated for the reports of converted documents.
C7_ScoreReflectsAllWarnings ==
    app \in {"cli", "web"} =>
        \A k \in DOMAIN report.files :
            report.files[k].success =>
                report.files[k].quality_score
                    = ScoreFor(Len(report.files[k].warnings),
                               Len(report.files[k].errors))

\* C8: after every add_file_report total_files = successful + failed = the
\* number of file reports held, successful counts the reports with
\* success = true, and average_quality_score * total_files = the sum of
\* the scores held.
C8_ReportTotals ==
    /\ report.total_files = report.successful + report.failed
    /\ report.total_files = Len(report.files)
    /\ report.successful
         = Cardinality({ k \in DOMAIN report.files : report.files[k].success })
    /\ report.average_quality_score.den > 0
    /\ report.files # <<>> =>
          report.average_quality_score.num * report.total_files
            = SumScores(report.files) * report.average_quality_score.den

\* C8 happens: three reports, one of them failed, whose scores 1.0, 0.5
\* and 0.35 average to 185/300
C8_Witness ==
    /\ app = "report"
    /\ report.total_files = 3 /\ report.failed = 1
    /\ report.average_quality_score = [num |-> 185, den |-> 3]

\* what a link resolved to `dest` is replaced by: the path from the
\* directory of the current file, or "/" and the path from the output root
ResolvedUrl(dest, fragment) ==
    (IF IsRelativeTo(dest, PathParent(current_file))
     THEN PathStr(RelativeTo(dest, PathParent(current_file)))
     ELSE <<"/">> \o PathStr(RelativeTo(dest, config.output_dir)))
    \o fragment

\* the fragment of a URL: what follows its path, from the first "#" on
UrlFragment(u) == IF Find(u, "#") > 0 THEN From(u, Find(u, "#")) ELSE <<>>

\* a relative link to a document: no external scheme, not an in-page
\* anchor, and a path with a convertible extension
IsDocumentLink(u) ==
    /\ UrlScheme(u) \notin ExternalSchemes
    /\ ~StartsWith(u, <<"#">>)
    /\ StrLower(PathSuffix(UrlPath(u))) \in DocumentSuffixes

\* the registered sources whose basename is the basename of the link
SameBasename(u) ==
    { i \in DOMAIN converted_files :
        PathName(converted_files[i].src) = PathName(UrlPath(u)) }

\* C9: a relative link with a convertible extension whose basename is the
\* basename of a registered source is replaced by the registered output
\* path of such a source, relative to the directory of the current file
\* (or "/" + path from the output root), followed by the original fragment
\* unchanged, and no warning is recorded.
C9_RegisteredLinkResolved ==
    (app = "rewriter" /\ pc = "returned" /\ IsDocumentLink(url)
       /\ SameBasename(url) # {})
    => /\ \E i \in SameBasename(url) :
             new_url = ResolvedUrl(converted_files[i].dest, UrlFragment(url))
       /\ warnings = <<>>

\* C10: the registry is looked up by basename: a relative link with a
\* convertible extension whose basename is the basename of no registered
\* source is left unchanged, with exactly one warning "Unresolved document
\* link: <url>".
C10_UnregisteredLinkUnresolved ==
    (app = "rewriter" /\ pc = "returned" /\ IsDocumentLink(url)
       /\ SameBasename(url) = {})
    => /\ new_url = url
       /\ warnings = <<Warning(UnresolvedMsg, url)>>

\* an external URL: its scheme is http, https, ftp or mailto
IsExternal(u) ==
    UrlScheme(u) \in {<<"h","t","t","p">>, <<"h","t","t","p","s">>,
                      <<"f","t","p">>, <<"m","a","i","l","t","o">>}

\* a relative URL that is neither an in-page anchor nor a link to a
\* document: its path has no convertible extension
IsOtherRelative(u) ==
    /\ UrlScheme(u) = <<>>
    /\ ~StartsWith(u, <<"#">>)
    /\ StrLower(PathSuffix(UrlPath(u))) \notin DocumentSuffixes

\* C11: a URL whose scheme is http, https, ftp or mailto, and a relative
\* URL (not an in-page anchor) whose path has no convertible extension, is
\* returned unchanged and no warning is recorded for it, whatever the
\* registry holds.
C11_OtherUrlsUntouched ==
    (app = "rewriter" /\ (IsExternal(url) \/ IsOtherRelative(url)))
    => /\ warnings = <<>>
       /\ pc = "returned" => new_url = url

\* C11 happens: with a.docx registered, a link to a.md with a fragment came
\* back as it was
C11_Witness ==
    /\ app = "rewriter" /\ pc = "returned"
    /\ \E i \in DOMAIN converted_files : converted_files[i].src = ADocx
    /\ IsOtherRelative(url) /\ PathName(UrlPath(url)) = PathName(AMd)
    /\ Find(url, "#") > 0
    /\ new_url = url /\ warnings = <<>>

\* what the rule of C12 makes of one character
SlugChar(c) ==
    IF c = " " THEN <<"-">>
    ELSE IF IsUpper(c) THEN <<LowerChar(c)>>
    ELSE IF IsLower(c) \/ c \in Digits \/ c = "-" THEN <<c>>
    ELSE <<>>

RECURSIVE Slug(_)
Slug(text) == IF text = <<>> THEN <<>> ELSE SlugChar(Head(text)) \o Slug(Tail(text))

\* C12: a URL that starts with "#" is replaced by "#" followed by its text
\* lower-cased, every space replaced by a hyphen and every character
\* outside [a-z0-9-] removed; the rule applied to its own result changes
\* nothing.
C12_AnchorNormalized ==
    (Returned("normalize_anchor") /\ StartsWith(arg.anchor, <<"#">>))
    => /\ ret = <<"#">> \o Slug(Tail(arg.anchor))
       /\ NormalizeAnchor(ret) = ret

\* C12 happens: "#M !" came back as "#m-"
C12_Witness ==
    /\ Returned("normalize_anchor")
    /\ arg.anchor = <<"#","M"," ","!">>
    /\ ret = <<"#","m","-">>

\* the lines of a text, and the level of a line (0: the line is no heading)
LinesOf(text) == Split(text, NL)
LevelOf(line) == IF HeadingMatch(line).matched THEN HeadingMatch(line).level ELSE 0
HeadingsAt(lines, level) == { i \in DOMAIN lines : LevelOf(lines[i]) = level }
WarningsWith(ws, msg) == SelectSeq(ws, LAMBDA w : w.msg = msg)

\* C13: the output of heading normalization holds at most one level-1
\* heading, and exactly one when the input holds one: the first level-1
\* heading is kept as it is, every later one comes out as a level-2 heading
\* of the same title, and there is exactly one "Multiple H1 headings found"
\* warning per demoted heading.
C13_SingleH1 ==
    Returned("normalize_headings") =>
        LET in == LinesOf(arg.content)
            out == LinesOf(ret.content)
            h1 == HeadingsAt(in, 1)
            first == CHOOSE i \in h1 : \A j \in h1 : i <= j
            multiple == WarningsWith(ret.warnings, MultipleH1Msg)
        IN  /\ Len(out) = Len(in)
            /\ Cardinality(HeadingsAt(out, 1)) <= 1
            /\ h1 = {} => HeadingsAt(out, 1) = {} /\ multiple = <<>>
            /\ h1 # {} =>
                  /\ HeadingsAt(out, 1) = {first}
                  /\ out[first] = in[first]
                  /\ \A i \in h1 \ {first} :
                        /\ LevelOf(out[i]) = 2
                        /\ HeadingMatch(out[i]).title = HeadingMatch(in[i]).title
                  /\ Len(multiple) = Cardinality(h1) - 1

\* C13 happens: of three level-1 headings the first is kept and two are
\* demoted, with two warnings
C13_Witness ==
    /\ Returned("normalize_headings")
    /\ Cardinality(HeadingsAt(LinesOf(arg.content), 1)) = 3
    /\ Cardinality(HeadingsAt(LinesOf(ret.content), 1)) = 1
    /\ Cardinality(HeadingsAt(LinesOf(ret.content), 2)) = 2
    /\ Len(WarningsWith(ret.warnings, MultipleH1Msg)) = 2

\* the k-th smallest element of a set of numbers
Nth(S, k) == CHOOSE i \in S : Cardinality({ j \in S : j < i }) = k - 1

\* C14: in the output of heading normalization every heading after the
\* first has a level at most one greater than the heading before it; each
\* heading whose level was lowered yields exactly one "Heading level jump
\* detected" warning, and the warnings are listed in the order of the
\* headings they are about.
C14_NoLevelJump ==
    Returned("normalize_headings") =>
        LET in == LinesOf(arg.content)
            out == LinesOf(ret.content)
            heads == { i \in DOMAIN out : LevelOf(out[i]) > 0 }
            clamped == { i \in DOMAIN in :
                           LevelOf(in[i]) > 0 /\ LevelOf(out[i]) < LevelOf(in[i]) }
            changed == { i \in DOMAIN in :
                           LevelOf(in[i]) > 0 /\ LevelOf(out[i]) # LevelOf(in[i]) }
            jumps == WarningsWith(ret.warnings, JumpMsg)
        IN  /\ \A k \in 2..Cardinality(heads) :
                  LevelOf(out[Nth(heads, k)]) <= LevelOf(out[Nth(heads, k - 1)]) + 1
            /\ Len(jumps) = Cardinality(clamped)
            /\ \A k \in DOMAIN jumps :
                  /\ jumps[k].arg = HeadingMatch(in[Nth(clamped, k)]).title
                  /\ jumps[k].levels[2] = LevelOf(in[Nth(clamped, k)])
                  /\ jumps[k].levels[3] = LevelOf(out[Nth(clamped, k)])
            /\ Len(ret.warnings) = Cardinality(changed)
            /\ \A k \in DOMAIN ret.warnings :
                  /\ ret.warnings[k].arg = HeadingMatch(in[Nth(changed, k)]).title
                  /\ (ret.warnings[k].msg = JumpMsg) <=> (Nth(changed, k) \in clamped)

\* C14 happens: after a level-1 heading, a level-4 and a level-6 heading
\* come out at the levels 2 and 3, with two warnings in that order
C14_Witness ==
    /\ Returned("normalize_headings")
    /\ arg.content = <<"#"," ","A",NL,"#","#","#","#"," ","D",NL,
                       "#","#","#","#","#","#"," ","E">>
    /\ ret.content = <<"#"," ","A",NL,"#","#"," ","D",NL,"#","#","#"," ","E">>
    /\ ret.warnings = <<JumpWarning(<<"D">>, 1, 4, 2), JumpWarning(<<"E">>, 2, 6, 3)>>

\* C15: whitespace normalization is idempotent: applied to its own output
\* it returns that output.
C15_WhitespaceIdempotent ==
    Returned("normalize_whitespace") => NormalizeWhitespace(ret) = ret

\* C15 happens: a text that the normalization changes (blank lines dropped,
\* trailing white space removed) was normalized
C15_Witness ==
    /\ Returned("normalize_whitespace")
    /\ arg.content = <<"a"," ",NL," ",NL,NL,"\t",NL," ","a","\t">>
    /\ ret = <<"a",NL,NL,NL," ","a",NL>>

\* a line that holds white space only
IsBlank(line) == \A k \in DOMAIN line : line[k] \in Whitespace
NonBlank(lines) == SelectSeq(lines, LAMBDA l : ~IsBlank(l))

\* C16: the output of whitespace normalization has no line that ends in
\* white space, no run of more than two consecutive blank lines, and ends
\* with exactly one newline; the non-blank lines keep their order and their
\* content apart from trailing white space.
C16_WhitespaceShape ==
    Returned("normalize_whitespace") =>
        LET in == LinesOf(arg.content)
            out == LinesOf(ret)
        IN  /\ \A i \in DOMAIN out :
                  out[i] = <<>> \/ out[i][Len(out[i])] \notin Whitespace
            /\ \A i \in DOMAIN out :
                  ~ (i + MaxBlankLines \in DOMAIN out
                       /\ \A j \in i..(i + MaxBlankLines) : IsBlank(out[j]))
            /\ ret # <<>> /\ ret[Len(ret)] = NL
            /\ Len(ret) > 1 => ret[Len(ret) - 1] # NL
            /\ NonBlank(out) = NonBlank([i \in DOMAIN in |-> RStrip(in[i])])

\* C16 happens: of four blank lines before a line of text two are kept
C16_Witness ==
    /\ Returned("normalize_whitespace")
    /\ arg.content = <<NL," ",NL,"\t",NL,NL,"a"," ">>
    /\ ret = <<NL,NL,"a",NL>>

\* the characters sanitize keeps, and the text without its hyphens
IsSafeChar(c) == IsUpper(c) \/ IsLower(c) \/ c \in Digits \/ c \in {"-", "."}
NoHyphens(text) == SelectSeq(text, LAMBDA c : c # "-")

\* C17: sanitize returns stem' + ext, where ext is the extension of the
\* name unchanged and stem' is not empty, holds characters of [A-Za-z0-9-.]
\* only (no upper-case letter when lowercase is asked for), has no two
\* hyphens in a row and no hyphen at either end; when no letter, digit or
\* dot of the stem is left, stem' is "unnamed", and otherwise stem' holds
\* the letters, digits and dots of the stem, in their order.
C17_SanitizedName ==
    Returned("sanitize_filename") =>
        LET path == PathOf(arg.filename)
            ext == PathSuffix(path)
            stem == SubSeq(ret, 1, Len(ret) - Len(ext))
            left == NoHyphens(SelectSeq(PathStem(path), IsSafeChar))
        IN  /\ EndsWith(ret, ext)
            /\ stem # <<>>
            /\ \A k \in DOMAIN stem :
                  /\ IsSafeChar(stem[k])
                  /\ arg.lowercase => ~IsUpper(stem[k])
                  /\ k > 1 => ~(stem[k] = "-" /\ stem[k - 1] = "-")
            /\ stem[1] # "-" /\ stem[Len(stem)] # "-"
            /\ left = <<>> => stem = Unnamed
            /\ left # <<>> =>
                  NoHyphens(stem) = IF arg.lowercase THEN StrLower(left) ELSE left

\* C17 happens: a name with a space and an underscore in a row came back in
\* lower case with one hyphen
C17_Witness ==
    /\ Returned("sanitize_filename")
    /\ arg.filename = <<"B"," ","_","1">> /\ arg.lowercase
    /\ ret = <<"b","-","1">>

\* C18: get_unique_filename returns directory/desired when that path does
\* not exist, and otherwise directory/<stem>-<k><ext> for the smallest
\* k >= 2 whose path does not exist; the path returned does not exist.
C18_UniqueName ==
    Returned("get_unique_filename") =>
        LET desired == PathJoin(arg.base_path, arg.desired_name)
            Taken(path) == path \in DOMAIN arg.files \/ path \in arg.directories
        IN  /\ ~Taken(ret)
            /\ ~Taken(desired) => ret = desired
            /\ Taken(desired) =>
                  \E k \in 2..(MaxCounter + 1) :
                      /\ ret = Suffixed(desired, k)
                      /\ \A j \in 2..(k - 1) : Taken(Suffixed(desired, j))

\* C18 happens: a.md and a-2.md are files and a-3.md is a directory, and
\* a-4.md is returned
C18_Witness ==
    /\ Returned("get_unique_filename")
    /\ arg.desired_name = <<"a",".","m","d">>
    /\ AMd \in DOMAIN arg.files /\ Suffixed(AMd, 2) \in DOMAIN arg.files
    /\ Suffixed(AMd, 3) \in arg.directories
    /\ Suffixed(AMd, 4) \notin DOMAIN arg.files
    /\ ret = Suffixed(AMd, 4)

\* C19: save_images called with an empty image map returns an empty
\* mapping and leaves the disk as it was: no file is written and the asset
\* directory of the document is not created.
C19_NoImagesNoDirectory ==
    (Returned("save_images") /\ arg.images = <<>>) =>
        /\ ret.mapping = <<>>
        /\ ret.files = arg.files
        /\ ret.dirs = arg.directories

\* C19 happens: save_images has returned from a call without images made
\* when the asset directory of a.docx did not exist
C19_Witness ==
    /\ Returned("save_images")
    /\ arg.images = <<>>
    /\ ImageDir(config.assets_dir, arg.document_name) \notin arg.directories
    /\ ImageDir(config.assets_dir, arg.document_name) \notin ret.dirs

\* the lines of the metadata block of a call of add_front_matter, from the
\* opening '---' to the closing '---'
MetadataBlock ==
    <<FrontMatterFence,
      <<"t","i","t","l","e",":"," ">> \o arg.title,
      <<"s","o","u","r","c","e",":"," ">> \o arg.source,
      <<"c","o","n","v","e","r","t","e","d","_","a","t",":"," ">> \o arg.converted_at>>
    \o [i \in DOMAIN arg.extra |->
          arg.extra[i].key \o <<":"," ">> \o arg.extra[i].value]
    \o <<FrontMatterFence>>

\* C20: the result of add_front_matter is the line '---', the title,
\* source and converted_at lines, one 'key: value' line per extra key in
\* insertion order with the values verbatim, a closing line '---', one
\* blank line, and then the content unchanged as the suffix of the result.
C20_FrontMatterLayout ==
    Returned("add_front_matter") =>
        ret = Join(MetadataBlock, NL) \o <<NL>> \o <<NL>> \o arg.content

\* C29: heading normalization is idempotent: applied to the text it
\* returned, normalize_headings returns that text and no warning.
C29_HeadingsIdempotent ==
    Returned("normalize_headings") =>
        /\ NormalizeHeadings(ret.content).content = ret.content
        /\ NormalizeHeadings(ret.content).warnings = <<>>

\* C29 happens: a text with a second H1 and a jump from H2 to H4 was
\* normalized, and both headings were changed
C29_Witness ==
    /\ Returned("normalize_headings")
    /\ arg.content = <<"#"," ","A",NL,"#"," ","B",NL,"#","#","#","#"," ","D">>
    /\ ret.content = <<"#"," ","A",NL,"#","#"," ","B",NL,"#","#","#"," ","D">>
    /\ Len(ret.warnings) = 2

\* C30: filename sanitization is idempotent: for either lowercase setting,
\* sanitize_filename applied to the name it returned gives that name.
C30_SanitizeIdempotent ==
    Returned("sanitize_filename") =>
        SanitizeFilename(ret, arg.lowercase) = ret

\* C28: in one call of save_images with images, each image is written to a
\* file of its own in the image directory of the document: no two images
\* go to one path, no file that was there before the call is changed, also
\* when two names sanitize alike; the mapping returned has one entry per
\* image, in the order of the images, that leads to the file of the image.
C28_ImagesKeptApart ==
    (Returned("save_images") /\ arg.images # <<>>) =>
        LET image_dir == ImageDir(config.assets_dir, arg.document_name)
            written == (DOMAIN ret.files) \ (DOMAIN arg.files)
            FileOf(i) == PathParent(arg.markdown_file) \o PathOf(ret.mapping[i].path)
        IN  /\ \A path \in DOMAIN arg.files : ret.files[path] = arg.files[path]
            /\ Cardinality(written) = Len(arg.images)
            /\ \A path \in written : PathParent(path) = image_dir
            /\ Len(ret.mapping) = Len(arg.images)
            /\ \A i \in DOMAIN arg.images :
                  /\ ret.mapping[i].name = arg.images[i].name
                  /\ FileOf(i) \in written
                  /\ ret.files[FileOf(i)].text = arg.images[i].bytes
            /\ \A i, j \in DOMAIN arg.images : i # j => FileOf(i) # FileOf(j)

\* C28 happens: p.png and P.png are placed where p.png and p-2.png were
\* already, and go to p-3.png and p-4.png
C28_Witness ==
    /\ Returned("save_images")
    /\ Len(arg.images) = 2
    /\ Cardinality(DOMAIN arg.files) = 3
    /\ ret.mapping[1].path = <<"a","s","s","e","t","s","/","a","/","p","-","3",".","p","n","g">>
    /\ ret.mapping[2].path = <<"a","s","s","e","t","s","/","a","/","p","-","4",".","p","n","g">>

\* C26: the entry of a successfully converted document is in the registry
\* before its Markdown output is written: whenever a Markdown file written
\* for a source is on the disk, the registry holds an entry for the source.
C26_RegisteredBeforeWritten ==
    \A path \in DOMAIN disk :
        (disk[path].by # <<>> /\ PathSuffix(path) = MdSuffix) =>
            \E i \in DOMAIN converted_files : converted_files[i].src = disk[path].by

\* the stages of a document whose extraction succeeded, in the order of
\* _convert_file and convert_single_file
StageOrder ==
    <<"extract", "headings", "whitespace", "images", "links">>
    \o (IF config.front_matter THEN <<"front_matter">> ELSE <<>>)
    \o <<"write">>

\* C27: a document whose extraction succeeded goes through heading
\* normalization, whitespace normalization, image placement, link
\* rewriting, front-matter injection (when enabled) and the write in this
\* order, each once and none again; its successful file report is added
\* only when all of them, the write last, are behind it.
C27_StagesInOrder ==
    /\ [](\E n \in 0..Len(StageOrder \o <<"register">>) :
             stages = SubSeq(StageOrder \o <<"register">>, 1, n))
    /\ [][report'.successful > report.successful => stages = StageOrder]_vars

\* C27 happens: b.docx went through every stage, front matter included,
\* and is reported successful
C27_Witness ==
    /\ pc = "done"
    /\ files_to_convert = <<BDocx>>
    /\ stages = StageOrder \o <<"register">>
    /\ Len(StageOrder) = 7
    /\ report.successful = 1

\* the job of the id is in the table / is over / its storage is there
Known(job_id) == job_id \in DOMAIN conversion_jobs
Finished(job_id) == Known(job_id) /\ conversion_jobs[job_id].status \in {"completed", "failed"}
Stored(job_id) == \E path \in (DOMAIN disk) \cup dirs : IsRelativeTo(path, TempDir(job_id))

\* C22: upload answers with the job id at once, and every job accepted by
\* upload that is not deleted while it runs reaches status completed or
\* failed, and keeps that status as long as it is in the table.
C22_JobsFinish ==
    /\ [][(response' # response /\ response'.request = "upload"
             /\ response'.status_code = 200)
          => (response'.job_id \in (DOMAIN conversion_jobs') \ (DOMAIN conversion_jobs))]_vars
    /\ \A job_id \in JobIds :
          Known(job_id) ~> (~Known(job_id) \/ Finished(job_id))
    /\ [][\A job_id \in JobIds :
             (Finished(job_id) /\ Known(job_id)') =>
                conversion_jobs'[job_id].status = conversion_jobs[job_id].status]_vars

\* C24: every job is garbage-collected in the end, also when no client
\* downloads or deletes it: its entry leaves the job table and its
\* temporary storage is deleted.
C24_JobsCollected ==
    \A job_id \in JobIds : Known(job_id) ~> (~Known(job_id) /\ ~Stored(job_id))

\* C21: the status of a job is one of pending, processing, completed and
\* failed, its progress is an integer in 0..100 that never decreases, a
\* completed job has progress 100 and a report, and download answers with
\* the archive for a completed job only: 404 for an unknown id, 400 for a
\* job of another status.
C21_JobStates ==
    /\ [](\A job_id \in DOMAIN conversion_jobs :
            /\ conversion_jobs[job_id].status \in {"pending", "processing", "completed", "failed"}
            /\ conversion_jobs[job_id].progress \in 0..100
            /\ conversion_jobs[job_id].status = "completed" =>
                  /\ conversion_jobs[job_id].progress = 100
                  /\ conversion_jobs[job_id].report # <<>>)
    /\ [][\A job_id \in JobIds :
             (Known(job_id) /\ Known(job_id)') =>
                conversion_jobs'[job_id].progress >= conversion_jobs[job_id].progress]_vars
    /\ [][(response' # response /\ response'.request = "download") =>
             IF ~Known(response'.job_id) THEN response'.status_code = 404
             ELSE IF conversion_jobs[response'.job_id].status # "completed"
             THEN response'.status_code = 400
             ELSE response'.status_code = 200]_vars

\* a completed job was downloaded: the answer is its archive
C21_Witness ==
    /\ response # <<>>
    /\ response.request = "download"
    /\ response.status_code = 200
    /\ response.body # {}
    /\ Known(response.job_id)
    /\ conversion_jobs[response.job_id].status = "completed"
    /\ conversion_jobs[response.job_id].progress = 100

\* the job was in the table, is there no longer, and nothing of its
\* temporary storage is left
Deleted(job_id) == job_id \in job_ids /\ ~Known(job_id) /\ ~Stored(job_id)

\* C23: after a job is deleted explicitly, also while its conversion runs,
\* status and download of its id answer not-found, its temporary storage
\* is deleted, and it stays deleted: no file or directory is created under
\* it afterwards.  A delete whose rmtree raised leaves the disk as it was;
\* that case is let pass here.
C23_DeletedStaysDeleted ==
    /\ [][\A job_id \in JobIds :
             (response' # response /\ response'.request = "delete"
                /\ response'.status_code = 200 /\ response'.job_id = job_id)
             => /\ ~Known(job_id)'
                /\ ~Stored(job_id)' \/ UNCHANGED <<disk, dirs>>]_vars
    /\ [][(response' # response /\ response'.request \in {"status", "download"}
              /\ ~Known(response'.job_id))
          => response'.status_code = 404]_vars
    /\ [][\A job_id \in JobIds : Deleted(job_id) => Deleted(job_id)']_vars

\* the FileReport carries the warning of a link that was not resolved
HasUnresolved(file_report) ==
    \E i \in DOMAIN file_report.warnings : file_report.warnings[i].msg = UnresolvedMsg

\* the registry of the task holds an entry for a source of that name
Registered(task, name) ==
    \E i \in DOMAIN task.converted_files : PathName(task.converted_files[i].src) = name

\* C25: the registry belongs to one batch.  The registry of a job holds
\* only sources of its own input directory with outputs of its own output
\* directory; the link of a.docx to b.docx is resolved exactly when b.docx
\* was converted in the same batch, whatever another job has converted;
\* the report of a job holds only files of its own batch.
C25_RegistryPerBatch ==
    \A job_id \in DOMAIN tasks :
       LET task == tasks[job_id]
       IN  /\ \A i \in DOMAIN task.converted_files :
                /\ IsRelativeTo(task.converted_files[i].src, PathJoin(TempDir(job_id), InputName))
                /\ IsRelativeTo(task.converted_files[i].dest, PathJoin(TempDir(job_id), OutputName))
           /\ \A i \in DOMAIN task.report.files :
                LET f == task.report.files[i]
                IN  /\ \E k \in DOMAIN task.job.files :
                          f.source_file \in {PathName(task.job.files[k]), PathStr(task.job.files[k])}
                    /\ (f.source_file = PathName(ADocx) /\ f.success) =>
                          (HasUnresolved(f) <=> ~Registered(task, PathName(BDocx)))
           /\ Len(task.report.files) <= (IF task.job = <<>> THEN 0 ELSE Len(task.job.files))

\* two jobs ran side by side: one has converted b.docx, the other one, whose
\* batch is a.docx alone, has finished with the link to b.docx unresolved
C25_Witness ==
    \E job_id \in DOMAIN tasks, other \in DOMAIN tasks :
       /\ job_id # other
       /\ Registered(tasks[other], PathName(BDocx))
       /\ tasks[job_id].pc = "done"
       /\ Registered(tasks[job_id], PathName(ADocx))
       /\ ~Registered(tasks[job_id], PathName(BDocx))
       /\ \E i \in DOMAIN tasks[job_id].report.files :
             /\ tasks[job_id].report.files[i].success
             /\ HasUnresolved(tasks[job_id].report.files[i])

====
